---- MODULE Spec2Model ----
(***************************************************************************)
(* A model of src/src/deserialize.rs: the path-tracked JSON accessor       *)
(* (PathMap), the flexible scalar decoders (get_num, get_grams, get_u8,    *)
(* get_u16, get_u32), the mandatory-parameter mask of StateParser and the  *)
(* configuration parser parse_config.                                      *)
(*                                                                         *)
(* Every entry point takes an immutable JSON value and returns a fresh     *)
(* result, so a behaviour is one call: the call's arguments are drawn in   *)
(* the action, and op, arg and ret record which call ran, on what, and     *)
(* what it returned.  The accessor's contexts are the exception: a        *)
(* context is derived from another one, so a behaviour of the accessor is  *)
(* a sequence of calls and `contexts` holds what they have built.          *)
(*                                                                         *)
(* Numbers.  TLC's integers are 32 bits wide, the program's are 64, so an  *)
(* integer is a little-endian sequence of NLimbs limbs of 16 bits (a       *)
(* magnitude) and a signed integer is a magnitude with a sign.  Strings    *)
(* are sequences of one-character strings.  A field name is a sequence of  *)
(* tokens, so that `name + "_dec"` and format!("p{}", num) are sequence    *)
(* concatenations: "x_dec" is <<"x", "_dec">> and "p12" is                 *)
(* <<"p", "1", "2">>.                                                      *)
(***************************************************************************)
EXTENDS Integers, Sequences, FiniteSets, TLC

VARIABLES
    op,                 \* the entry point that ran ("idle" before the call)
    arg,                \* its arguments
    ret,                \* its return value
    value,              \* the caller's `&mut` field of get_u8/get_u16/get_u32
    mandatory_params,   \* StateParser.mandatory_params
    config,             \* StateParser.extra.config: the identifiers set, in order
    contexts            \* the PathMap contexts built so far, each with its parent

vars == <<op, arg, ret, value, mandatory_params, config, contexts>>

(***************************************************************************)
(* Bounds of the model.                                                    *)
(***************************************************************************)
\* limbs of a magnitude: 5 limbs hold 80 bits, more than u64 needs
NLimbs == 5
\* longest string over Alphabet given to the number parsers
MaxStrLen == 3

(***************************************************************************)
(* Magnitudes: unsigned integers of NLimbs limbs, base 2^16.               *)
(***************************************************************************)
Base == 2^16
Limbs == 1..NLimbs
ZeroMag == [i \in Limbs |-> 0]
SmallMag(n) == [i \in Limbs |-> IF i = 1 THEN n ELSE 0]
\* 2^k
Pow2(k) == [i \in Limbs |-> IF i = (k \div 16) + 1 THEN 2^(k % 16) ELSE 0]
\* 2^k - 1
AllOnes(k) ==
    [i \in Limbs |-> IF i < (k \div 16) + 1 THEN Base - 1
                     ELSE IF i = (k \div 16) + 1 THEN 2^(k % 16) - 1 ELSE 0]
\* mag < 2^k
FitsBits(mag, k) ==
    \A i \in Limbs : /\ i > (k \div 16) + 1 => mag[i] = 0
                     /\ i = (k \div 16) + 1 => mag[i] < 2^(k % 16)

\* mag * m + a for small m and a; over: the result does not fit NLimbs limbs
MulAdd(mag, m, a) ==
    LET carry[i \in 0..NLimbs] ==
            IF i = 0 THEN a ELSE (mag[i] * m + carry[i - 1]) \div Base
    IN  [mag  |-> [i \in Limbs |-> (mag[i] * m + carry[i - 1]) % Base],
         over |-> carry[NLimbs] # 0]

\* mag divided by a small d: quotient and remainder
DivMod(mag, d) ==
    LET rem[i \in 1..(NLimbs + 1)] ==
            IF i = NLimbs + 1 THEN 0 ELSE (rem[i + 1] * Base + mag[i]) % d
    IN  [quot |-> [i \in Limbs |-> (rem[i + 1] * Base + mag[i]) \div d],
         rem  |-> rem[1]]

\* 2^(16 * n) - mag mod 2^(16 * n) on the low n limbs: two's complement negation
NegateLow(mag, n) ==
    LET carry[i \in 0..n] ==
            IF i = 0 THEN 1 ELSE ((Base - 1 - mag[i]) + carry[i - 1]) \div Base
    IN  [i \in Limbs |-> IF i <= n THEN ((Base - 1 - mag[i]) + carry[i - 1]) % Base
                         ELSE 0]

(***************************************************************************)
(* Characters and digits.                                                  *)
(***************************************************************************)
LowerDigits == <<"0", "1", "2", "3", "4", "5", "6", "7", "8", "9",
                 "a", "b", "c", "d", "e", "f">>
UpperDigits == <<"0", "1", "2", "3", "4", "5", "6", "7", "8", "9",
                 "A", "B", "C", "D", "E", "F">>

\* char::to_digit: the digit's value, or 16 for a character that is no hex digit
DigitVal(c) ==
    IF \E i \in 1..16 : LowerDigits[i] = c
    THEN (CHOOSE i \in 1..16 : LowerDigits[i] = c) - 1
    ELSE IF \E i \in 1..16 : UpperDigits[i] = c
    THEN (CHOOSE i \in 1..16 : UpperDigits[i] = c) - 1
    ELSE 16

\* the digits of mag in the radix, most significant first (empty for 0)
RECURSIVE DigitsOf(_, _, _)
DigitsOf(mag, radix, digits) ==
    IF mag = ZeroMag THEN <<>>
    ELSE LET d == DivMod(mag, radix)
         IN  Append(DigitsOf(d.quot, radix, digits), digits[d.rem + 1])

\* format!("{}", v), format!("{:x}", v), format!("{:X}", v)
DecString(mag) == IF mag = ZeroMag THEN <<"0">> ELSE DigitsOf(mag, 10, LowerDigits)
HexString(mag) == IF mag = ZeroMag THEN <<"0">> ELSE DigitsOf(mag, 16, LowerDigits)
HexStringUpper(mag) == IF mag = ZeroMag THEN <<"0">> ELSE DigitsOf(mag, 16, UpperDigits)
\* format!("{}", n) of a small n
DecStringSmall(n) == DecString(SmallMag(n))

(***************************************************************************)
(* Results.                                                                *)
(***************************************************************************)
Ok(v) == [ok |-> TRUE, val |-> v]
\* `let x = v; F(x)`: v is computed once and F is given its value
Let(v, F(_)) == CHOOSE out \in {F(x) : x \in {v}} : TRUE
\* error!(...): the message's kind with the path and the field name it embeds
Err(kind, path, name) ==
    [ok |-> FALSE, err |-> [kind |-> kind, path |-> path, name |-> name]]

(***************************************************************************)
(* std: i64::from_str, i64::from_str_radix.                                *)
(***************************************************************************)
\* the digits of s folded into acc; fails on a character that is no digit of
\* the radix and on a value that outgrows the limbs
RECURSIVE ParseDigits(_, _, _)
ParseDigits(s, radix, acc) ==
    IF s = <<>> THEN [ok |-> TRUE, mag |-> acc]
    ELSE IF DigitVal(Head(s)) >= radix THEN [ok |-> FALSE, mag |-> ZeroMag]
    ELSE LET r == MulAdd(acc, radix, DigitVal(Head(s)))
         IN  IF r.over THEN [ok |-> FALSE, mag |-> ZeroMag]
             ELSE ParseDigits(Tail(s), radix, r.mag)

\* a signed integer: canonical zero is not negative
I64(neg, mag) == [neg |-> neg /\ mag # ZeroMag, mag |-> mag]

\* i64::from_str_radix(s, radix): an optional sign, then at least one digit; the
\* value must lie in -2^63 .. 2^63 - 1.  [ok, val]
i64_from_str_radix(s, radix) ==
    IF s = <<>> THEN [ok |-> FALSE]
    ELSE LET signed == Head(s) \in {"+", "-"}
             neg    == Head(s) = "-"
             digits == IF signed THEN Tail(s) ELSE s
             r      == ParseDigits(digits, radix, ZeroMag)
         IN  IF digits = <<>> \/ ~r.ok THEN [ok |-> FALSE]
             ELSE IF neg /\ ~(FitsBits(r.mag, 63) \/ r.mag = Pow2(63)) THEN [ok |-> FALSE]
             ELSE IF ~neg /\ ~FitsBits(r.mag, 63) THEN [ok |-> FALSE]
             ELSE [ok |-> TRUE, val |-> I64(neg, r.mag)]

i64_from_str(s) == i64_from_str_radix(s, 10)

\* str::strip_prefix("0x")
HasPrefix0x(s) == Len(s) >= 2 /\ s[1] = "0" /\ s[2] = "x"
StripPrefix0x(s) == SubSeq(s, 3, Len(s))

(***************************************************************************)
(* serde_json::Value.  A number is serde_json's N: PosInt(u64),            *)
(* NegInt(i64 < 0, held as its magnitude) or Float.                        *)
(***************************************************************************)
JNull == [t |-> "null"]
JBool(b) == [t |-> "bool", b |-> b]
JPosInt(mag) == [t |-> "num", n |-> "PosInt", mag |-> mag]
JNegInt(mag) == [t |-> "num", n |-> "NegInt", mag |-> mag]
JFloat == [t |-> "num", n |-> "Float", mag |-> ZeroMag]
JStr(s) == [t |-> "str", s |-> s]
JArr(a) == [t |-> "arr", a |-> a]
JObj(m) == [t |-> "obj", m |-> m]

\* Value::as_i64: Some for an integer that fits i64
as_i64(v) ==
    IF v.t = "num" /\ v.n = "PosInt" /\ FitsBits(v.mag, 63) THEN Ok(I64(FALSE, v.mag))
    ELSE IF v.t = "num" /\ v.n = "NegInt" THEN Ok(I64(TRUE, v.mag))
    ELSE [ok |-> FALSE]
\* Value::as_u64: Some for a non-negative integer
as_u64(v) == IF v.t = "num" /\ v.n = "PosInt" THEN Ok(v.mag) ELSE [ok |-> FALSE]
\* Value::as_str, as_object, as_array, as_bool
as_str(v) == IF v.t = "str" THEN Ok(v.s) ELSE [ok |-> FALSE]
as_object(v) == IF v.t = "obj" THEN Ok(v.m) ELSE [ok |-> FALSE]
as_array(v) == IF v.t = "arr" THEN Ok(v.a) ELSE [ok |-> FALSE]
as_bool(v) == IF v.t = "bool" THEN Ok(v.b) ELSE [ok |-> FALSE]

(***************************************************************************)
(* PathMap: a JSON object and the path that led to it.                     *)
(***************************************************************************)
PathMap(map, path) == [map |-> map, path |-> path]
\* PathMap::new
PathMap_new(map) == PathMap(map, <<<<"root">>>>)

\* name.to_string() + "_dec"
DecName(name) == name \o <<"_dec">>

\* PathMap::get_item
get_item(pm, name) ==
    IF name \in DOMAIN pm.map THEN Ok(pm.map[name])
    ELSE Err("MissingField", pm.path, name)

\* get_num with a bug: a string at F_dec that does not parse falls through to F
get_num_fallthrough(pm, name) ==
    LET item == get_item(pm, name)
        dec  == get_item(pm, DecName(name))
        d    == IF dec.ok /\ as_str(dec.val).ok THEN i64_from_str(dec.val.s)
                ELSE [ok |-> FALSE]
    IN  IF item.ok /\ as_i64(item.val).ok THEN Ok(as_i64(item.val).val)
        ELSE IF d.ok THEN Ok(d.val)
        ELSE IF item.ok /\ as_str(item.val).ok
        THEN LET s == item.val.s
                 r == IF HasPrefix0x(s) THEN i64_from_str_radix(StripPrefix0x(s), 16)
                      ELSE i64_from_str(s)
             IN  IF r.ok THEN Ok(r.val) ELSE Err("InvalidInteger", pm.path, name)
        ELSE Err("NotInteger", pm.path, name)

\* get_num with a bug: the 0x prefix is not recognised
get_num_no_hex(pm, name) ==
    LET item == get_item(pm, name)
        dec  == get_item(pm, DecName(name))
    IN  IF item.ok /\ as_i64(item.val).ok THEN Ok(as_i64(item.val).val)
        ELSE IF dec.ok /\ as_str(dec.val).ok
        THEN LET r == i64_from_str(dec.val.s)
             IN  IF r.ok THEN Ok(r.val) ELSE Err("InvalidInteger", pm.path, name)
        ELSE IF item.ok /\ as_str(item.val).ok
        THEN LET r == i64_from_str(item.val.s)
             IN  IF r.ok THEN Ok(r.val) ELSE Err("InvalidInteger", pm.path, name)
        ELSE Err("NotInteger", pm.path, name)

\* PathMap::get_num
get_num(pm, name) ==
    LET item == get_item(pm, name)
        dec  == get_item(pm, DecName(name))
    IN  IF item.ok /\ as_i64(item.val).ok THEN Ok(as_i64(item.val).val)
        ELSE IF dec.ok /\ as_str(dec.val).ok
        THEN LET r == i64_from_str(dec.val.s)
             IN  IF r.ok THEN Ok(r.val) ELSE Err("InvalidInteger", pm.path, name)
        ELSE IF item.ok /\ as_str(item.val).ok
        THEN LET s == item.val.s
                 r == IF HasPrefix0x(s) THEN i64_from_str_radix(StripPrefix0x(s), 16)
                      ELSE i64_from_str(s)
             IN  IF r.ok THEN Ok(r.val) ELSE Err("InvalidInteger", pm.path, name)
        ELSE Err("NotInteger", pm.path, name)

\* Grams::from_str of the block library: the amount a decimal string denotes
Grams_from_str(s) ==
    LET r == ParseDigits(s, 10, ZeroMag)
    IN  IF s # <<>> /\ r.ok THEN Ok(r.mag) ELSE [ok |-> FALSE]

\* get_grams with a bug: a string at F is read the way get_num reads it, hex included
get_grams_hex(pm, name) ==
    LET item == get_item(pm, name)
        dec  == get_item(pm, DecName(name))
    IN  IF item.ok /\ as_u64(item.val).ok THEN Ok(as_u64(item.val).val)
        ELSE IF dec.ok /\ as_str(dec.val).ok
        THEN LET r == Grams_from_str(dec.val.s)
             IN  IF r.ok THEN Ok(r.val) ELSE Err("InvalidInteger", pm.path, name)
        ELSE IF item.ok /\ as_str(item.val).ok
        THEN LET s == item.val.s
                 r == IF HasPrefix0x(s) THEN ParseDigits(StripPrefix0x(s), 16, ZeroMag)
                      ELSE ParseDigits(s, 10, ZeroMag)
             IN  IF s # <<>> /\ r.ok THEN Ok(r.mag) ELSE Err("InvalidInteger", pm.path, name)
        ELSE Err("NotInteger", pm.path, name)

\* PathMap::get_grams
get_grams(pm, name) ==
    LET item == get_item(pm, name)
        dec  == get_item(pm, DecName(name))
    IN  IF item.ok /\ as_u64(item.val).ok THEN Ok(as_u64(item.val).val)
        ELSE IF dec.ok /\ as_str(dec.val).ok
        THEN LET r == Grams_from_str(dec.val.s)
             IN  IF r.ok THEN Ok(r.val) ELSE Err("InvalidInteger", pm.path, name)
        ELSE IF item.ok /\ as_str(item.val).ok
        THEN LET r == Grams_from_str(item.val.s)
             IN  IF r.ok THEN Ok(r.val) ELSE Err("InvalidInteger", pm.path, name)
        ELSE Err("NotInteger", pm.path, name)

\* the magnitude with the limbs mag[1..n], written out
RECURSIVE LimbsOf(_, _)
LimbsOf(mag, n) == IF n = 0 THEN <<>> ELSE Append(LimbsOf(mag, n - 1), mag[n])
\* the low w bits of a magnitude
TruncBits(mag, w) ==
    [i \in Limbs |-> IF i < (w \div 16) + 1 THEN mag[i]
                     ELSE IF i = (w \div 16) + 1 THEN mag[i] % (2^(w % 16)) ELSE 0]
\* `v as uN` with a bug: a number that is no uN becomes the nearest uN
as_unsigned_saturating(v, w) ==
    IF v.neg THEN ZeroMag
    ELSE IF FitsBits(v.mag, w) THEN v.mag
    ELSE AllOnes(w)
\* `v as u8`, `v as u16`, `v as u32` of an i64: the low bits of its two's complement
as_unsigned(v, w) ==
    Let(IF v.neg THEN NegateLow(v.mag, 4) ELSE v.mag,
        LAMBDA bits : LimbsOf(TruncBits(bits, w), NLimbs))

\* get_u32 with a bug: a failed get_num zeroes the field
get_u32_zero(pm, name, old) ==
    LET r == get_num(pm, name) IN IF r.ok THEN as_unsigned(r.val, 32) ELSE ZeroMag
\* PathMap::get_u32, get_u16, get_u8: the new content of *value
get_u32(pm, name, old) ==
    LET r == get_num(pm, name) IN IF r.ok THEN as_unsigned(r.val, 32) ELSE old
\* get_u16 with a bug: a failed get_num resets the field
get_u16_reset(pm, name, old) ==
    LET r == get_num(pm, name) IN IF r.ok THEN as_unsigned(r.val, 16) ELSE ZeroMag
get_u16(pm, name, old) ==
    LET r == get_num(pm, name) IN IF r.ok THEN as_unsigned(r.val, 16) ELSE old
get_u8(pm, name, old) ==
    LET r == get_num(pm, name) IN IF r.ok THEN as_unsigned(r.val, 8) ELSE old
\* PathMap::get_num16: Ok(self.get_num(name)? as u16)
get_num16(pm, name) ==
    LET r == get_num(pm, name) IN IF r.ok THEN Ok(as_unsigned(r.val, 16)) ELSE r

\* cont with a bug: the child keeps the path of its parent
cont_same_path(prev, name, v) ==
    IF as_object(v).ok THEN Ok(PathMap(v.m, prev.path))
    ELSE Err("NotVectorOfObjects", prev.path, name)

\* PathMap::cont
cont(prev, name, v) ==
    IF as_object(v).ok THEN Ok(PathMap(v.m, Append(prev.path, name)))
    ELSE Err("NotVectorOfObjects", prev.path, name)

\* PathMap::get_obj
get_obj(pm, name) ==
    LET item == get_item(pm, name)
    IN  IF ~item.ok THEN item
        ELSE IF as_object(item.val).ok
        THEN Ok(PathMap(item.val.m, Append(pm.path, name)))
        ELSE Err("NotObject", pm.path, name)

\* PathMap::get_vec
get_vec(pm, name) ==
    LET item == get_item(pm, name)
    IN  IF ~item.ok THEN item
        ELSE IF as_array(item.val).ok THEN Ok(item.val.a)
        ELSE Err("NotVector", pm.path, name)

\* PathMap::get_str
get_str(pm, name) ==
    LET item == get_item(pm, name)
    IN  IF ~item.ok THEN item
        ELSE IF as_str(item.val).ok THEN Ok(item.val.s)
        ELSE Err("NotString", pm.path, name)

\* get_bool with a bug: the error of a field that is no boolean holds no path
get_bool_unpathed(pm, name) ==
    LET item == get_item(pm, name)
    IN  IF ~item.ok THEN item
        ELSE IF as_bool(item.val).ok THEN Ok(item.val.b)
        ELSE Err("NotBoolean", <<>>, <<>>)
\* PathMap::get_bool
get_bool(pm, name) ==
    LET item == get_item(pm, name)
    IN  IF ~item.ok THEN item
        ELSE IF as_bool(item.val).ok THEN Ok(item.val.b)
        ELSE Err("NotBoolean", pm.path, name)

\* an error of a library call, whose message embeds no path
ErrNoPath(kind) == Err(kind, <<>>, <<>>)

\* self.path.join("/"); every segment is a name, a sequence of tokens
RECURSIVE join(_)
join(path) ==
    IF path = <<>> THEN <<>>
    ELSE IF Len(path) = 1 THEN path[1]
    ELSE path[1] \o <<"/">> \o join(Tail(path))
\* the text of the errors of the accessor, from the format strings of error!;
\* the quotes around the field name stand for the backquotes of the source
error_message(err) ==
    CASE err.kind = "MissingField" ->
            join(err.path) \o <<" must have the field '">> \o err.name \o <<"'">>
      [] err.kind = "NotObject" ->
            join(err.path) \o <<"/">> \o err.name \o <<" must be the object">>
      [] err.kind = "NotVector" ->
            join(err.path) \o <<"/">> \o err.name \o <<" must be the vector">>
      [] err.kind = "NotString" /\ err.name # <<>> ->
            join(err.path) \o <<"/">> \o err.name \o <<" must be the string">>
      [] err.kind = "NotBoolean" /\ err.name # <<>> ->
            join(err.path) \o <<"/">> \o err.name \o <<" must be boolean">>
      [] err.kind = "NotVectorOfObjects" ->
            join(err.path) \o <<"/">> \o err.name \o <<" must be the vector of objects">>
      [] OTHER -> <<err.kind>>

\* hex::decode: an even number of hex digits; the value is the number of bytes
IsHex(s) == \A i \in 1..Len(s) : DigitVal(s[i]) < 16
hex_decode(s) ==
    IF IsHex(s) /\ Len(s) % 2 = 0 THEN Ok(Len(s) \div 2) ELSE ErrNoPath("HexDecode")

\* UInt256::from_str of the block library: 64 hex digits
UInt256_from_str(s) ==
    IF IsHex(s) /\ Len(s) = 64 THEN Ok(s) ELSE ErrNoPath("UInt256Parse")

\* PathMap::get_uint256
get_uint256(pm, name) ==
    LET str == get_str(pm, name)
    IN  IF ~str.ok THEN str
        ELSE IF UInt256_from_str(str.val).ok THEN Ok(str.val)
        ELSE Err("NotUInt256", pm.path, name)

\* base64_decode of the block library: groups of four characters of the
\* base64 alphabet, six bits each, the last group padded with = to one or two
\* bytes; the bits a padded group leaves over must be 0
Base64Chars ==
    <<"A", "B", "C", "D", "E", "F", "G", "H", "I", "J", "K", "L", "M", "N", "O", "P",
      "Q", "R", "S", "T", "U", "V", "W", "X", "Y", "Z", "a", "b", "c", "d", "e", "f",
      "g", "h", "i", "j", "k", "l", "m", "n", "o", "p", "q", "r", "s", "t", "u", "v",
      "w", "x", "y", "z", "0", "1", "2", "3", "4", "5", "6", "7", "8", "9", "+", "/">>
IsBase64(c) == \E i \in DOMAIN Base64Chars : Base64Chars[i] = c
Base64Val(c) ==
    IF c = "=" THEN 0 ELSE (CHOOSE i \in DOMAIN Base64Chars : Base64Chars[i] = c) - 1
\* one group of four characters: its bytes, or <<-1>> when it is ill-formed
Base64Group(g, last) ==
    LET n == Base64Val(g[1]) * 262144 + Base64Val(g[2]) * 4096
             + Base64Val(g[3]) * 64 + Base64Val(g[4])
        pad == IF g[4] # "=" THEN 0 ELSE IF g[3] # "=" THEN 1 ELSE 2
    IN  IF ~IsBase64(g[1]) \/ ~IsBase64(g[2]) \/ (pad > 0 /\ ~last)
           \/ (pad < 2 /\ ~IsBase64(g[3])) \/ (pad = 0 /\ ~IsBase64(g[4]))
           \/ (pad = 2 /\ Base64Val(g[2]) % 16 # 0)
           \/ (pad = 1 /\ Base64Val(g[3]) % 4 # 0)
        THEN <<-1>>
        ELSE SubSeq(<<n \div 65536, (n \div 256) % 256, n % 256>>, 1, 3 - pad)
RECURSIVE Base64Bytes(_)
Base64Bytes(s) ==
    IF s = <<>> THEN <<>>
    ELSE Base64Group(SubSeq(s, 1, 4), Len(s) = 4) \o Base64Bytes(SubSeq(s, 5, Len(s)))
base64_decode(s) ==
    IF Len(s) % 4 = 0 /\ (\A i \in DOMAIN Base64Bytes(s) : Base64Bytes(s)[i] >= 0)
    THEN Ok(Base64Bytes(s)) ELSE ErrNoPath("Base64Decode")

\* get_base64 with a bug: the string is checked but returned as it is
get_base64_raw(pm, name) ==
    LET str == get_str(pm, name)
    IN  IF ~str.ok THEN str
        ELSE IF base64_decode(str.val).ok THEN Ok(str.val)
        ELSE Err("NotBase64", pm.path, name)
\* PathMap::get_base64
get_base64(pm, name) ==
    LET str == get_str(pm, name)
    IN  IF ~str.ok THEN str
        ELSE IF base64_decode(str.val).ok THEN Ok(base64_decode(str.val).val)
        ELSE Err("NotBase64", pm.path, name)

\* read_single_root_boc of the block library: the bytes that hold one cell tree;
\* SampleBoc is the base64 of the bytes that do
SampleBoc == <<"t", "e", "6", "c">>
read_single_root_boc(bytes) ==
    IF bytes = <<181, 238, 156>> THEN Ok(bytes) ELSE ErrNoPath("BocDecode")

\* u32::from_str: an optional +, then digits; the value must be below 2^32
u32_from_str(s) ==
    LET digits == IF s # <<>> /\ Head(s) = "+" THEN Tail(s) ELSE s
        r      == ParseDigits(digits, 10, ZeroMag)
    IN  IF digits # <<>> /\ r.ok /\ FitsBits(r.mag, 32) THEN Ok(r.mag)
        ELSE ErrNoPath("ParseInt")

\* ParseJson::as_uint
as_uint(v) ==
    IF as_u64(v).ok THEN Ok(TruncBits(v.mag, 32))
    ELSE IF as_str(v).ok THEN u32_from_str(v.s)
    ELSE Ok(ZeroMag)

\* u64::from_str_radix(s, 16): an optional +, then hex digits; the value must be
\* below 2^64
u64_from_str_radix(s) ==
    LET digits == IF s # <<>> /\ Head(s) = "+" THEN Tail(s) ELSE s
        r      == ParseDigits(digits, 16, ZeroMag)
    IN  IF digits # <<>> /\ r.ok /\ FitsBits(r.mag, 64) THEN Ok(r.mag)
        ELSE ErrNoPath("ParseInt")

\* ParseJson::as_uint256
as_uint256(v) ==
    IF ~as_str(v).ok THEN ErrNoPath("NotString") ELSE UInt256_from_str(v.s)

(***************************************************************************)
(* StateParser: the mandatory mask.  A u64 is its 64 bits, bit 0 the       *)
(* least significant.                                                      *)
(***************************************************************************)
Bits == 0..63
ZeroMask == [i \in Bits |-> 0]
\* a 64-bit literal from its 16 hex digits, most significant first
U64FromHex(digits) ==
    [i \in Bits |-> (DigitVal(digits[16 - (i \div 4)]) \div (2^(i % 4))) % 2]
\* 1u64 << k, for k below 64
ShiftLeftOne(k) == [i \in Bits |-> IF i = k THEN 1 ELSE 0]
\* a | b
BitOr(a, b) == [i \in Bits |-> IF a[i] = 1 \/ b[i] = 1 THEN 1 ELSE 0]
\* a >> k
ShiftRight(a, k) == [i \in Bits |-> IF i + k \in Bits THEN a[i + k] ELSE 0]

\* StateParser::for_zero_state: mandatory_params: 0x0000_0004_B3F7_CF87
ZeroStateMask ==
    U64FromHex(<<"0", "0", "0", "0", "0", "0", "0", "4",
                 "B", "3", "F", "7", "C", "F", "8", "7">>)
\* the identifiers the comment of for_zero_state lists as mandatory
ZeroStateMandatories ==
    {0, 1, 2, 7, 8, 9, 10, 11, 12, 14, 15, 16, 17, 18,
     20, 21, 22, 23, 24, 25, 28, 29, 31, 34}

\* StateParser::is_need: ((self.mandatory_params >> num) & 1) != 0
is_need(mask, num) == ShiftRight(mask, num)[0] # 0

\* fold_mandatories with a bug: `=` in place of `|=`, the last identifier wins
fold_mandatories_assign(mandatories, mask) ==
    IF mandatories = <<>> THEN mask
    ELSE ShiftLeftOne(mandatories[Len(mandatories)])
\* parse_config_with_mandatory_params: the mask of the caller's list
RECURSIVE fold_mandatories(_, _)
fold_mandatories(mandatories, mask) ==
    IF mandatories = <<>> THEN mask
    ELSE fold_mandatories(Tail(mandatories),
                          BitOr(mask, ShiftLeftOne(Head(mandatories))))
\* StateParser::new: mandatory_params: 0
mask_of_mandatories(mandatories) ==
    IF mandatories = <<>> THEN ZeroMask ELSE fold_mandatories(mandatories, ZeroMask)

(***************************************************************************)
(* The parameter decoders.  A decoder is the sequence of its reads, in the *)
(* order the code evaluates them; it fails with the error of the first     *)
(* read that fails.  The constructors of the block library                 *)
(* (ParamLimits::with_limits, ConfigParam11::new, ...) are taken to accept *)
(* what the reads produced.                                                *)
(***************************************************************************)
\* the result of a try_for_each, or of a chain of `?`: the first error, else
\* the values
RECURSIVE FirstErrFrom(_, _, _)
FirstErrFrom(rs, i, acc) ==
    IF i \notin DOMAIN rs THEN Ok(acc)
    ELSE Let(rs[i], LAMBDA r : IF r.ok THEN FirstErrFrom(rs, i + 1, Append(acc, r.val))
                               ELSE r)
FirstErr(rs) == FirstErrFrom(rs, 1, <<>>)

\* the reads: p.get_num(f)?, p.get_grams(f)?, p.get_bool(f)?, p.get_uint256(f)?,
\* p.get_str(f)?
N(f) == [g |-> "num", f |-> <<f>>]
\* p.get_num(f)? as u8, as u16, as u32, as i32, as u64: the w low bits
NAs(f, w) == [g |-> "num_as", f |-> <<f>>, w |-> w]
\* p.get_num16(f)?, which is p.get_num(f)? as u16
N16(f) == NAs(f, 16)
G(f) == [g |-> "grams", f |-> <<f>>]
B(f) == [g |-> "bool", f |-> <<f>>]
H(f) == [g |-> "uint256", f |-> <<f>>]
S(f) == [g |-> "str", f |-> <<f>>]
\* the reads `sub` of p.get_obj(f)?
O(f, sub) == [g |-> "obj", f |-> <<f>>, sub |-> sub]
\* p.get_vec(f)?, and for each element the reads `sub` of
\* PathMap::cont(prev, cname, element)?; prev is the config object or p itself;
\* an optional vector (if let Ok(..) = p.get_vec(f)) is skipped when not there
V(f, prev, cname, sub) ==
    [g |-> "vec", f |-> <<f>>, prev |-> prev, cname |-> cname, sub |-> sub, opt |-> FALSE]
OptV(f, prev, cname, sub) ==
    [g |-> "vec", f |-> <<f>>, prev |-> prev, cname |-> cname, sub |-> sub, opt |-> TRUE]
\* hex::decode(p.get_str(f)?)?
Hx(f) == [g |-> "hex", f |-> <<f>>]
\* SigPubKey::from_bytes(&bytes)? of the bytes decoded from field f
PubKey(f) == [g |-> "pubkey", f |-> <<f>>]
\* p.get_str(f)?.parse()? into a SigPubKey
PubKeyStr(f) == [g |-> "pubkey_str", f |-> <<f>>]
\* if let Ok(a) = p.get_uint256(f) { Some(a) } else { None }; an Option is the
\* sequence of what it holds
OptH(f) == [g |-> "opt_uint256", f |-> <<f>>]
\* the None given to ValidatorDescr::with_params for the adnl_addr
NoAdnl == [g |-> "none", f |-> <<"adnl_addr">>]
\* if let Ok(k) = p.get_str(f) { Some(hex::decode(k)?.as_slice().try_into()?) }
\* else { None }; p34 first refuses a string that is not of 96 characters
OptBls(f, len96) == [g |-> "opt_bls", f |-> <<f>>, len96 |-> len96]
\* p.get_u32(f, &mut v) on a v that is 0
SoftU32(f) == [g |-> "soft_u32", f |-> <<f>>]
\* the value of p7: get_str(f_dec), else get_str(f)?, parsed
Amount(f) == [g |-> "amount", f |-> <<f>>]
\* u64::from_str_radix(p.get_str(f)?, 16)?
Shard(f) == [g |-> "shard", f |-> <<f>>]
\* read_single_root_boc(p.get_base64(f)?)?
Boc(f) == [g |-> "boc", f |-> <<f>>]
\* CryptoSignature::from_r_s_str(r, s)? of the strings read from fields r and s
Sig(r, s) == [g |-> "sig", f |-> <<r>>, s |-> <<s>>]
\* ValidatorSet::new(.., list)? of the list read from field f
NewSet(f) == [g |-> "new_set", f |-> <<f>>]
\* match p.get_bool(f)? { true => reads yes, false => reads no }
Match(f, yes, no) == [g |-> "match", f |-> <<f>>, yes |-> yes, no |-> no]

\* SigPubKey::from_bytes of the block library: 32 bytes
SigPubKey_from_bytes(nbytes) ==
    IF nbytes = 32 THEN Ok(TRUE) ELSE ErrNoPath("InvalidPublicKey")

\* SigPubKey::from_str of the block library: 64 hex digits
SigPubKey_from_str(s) ==
    IF IsHex(s) /\ Len(s) = 64 THEN Ok(TRUE) ELSE ErrNoPath("InvalidPublicKey")

\* bls_public_key with a bug: the decoded bytes are taken whatever their number
bls_public_key_any_len(s, len96) ==
    IF len96 /\ Len(s) # 96 THEN ErrNoPath("InvalidBlsKeyLength")
    ELSE IF ~(IsHex(s) /\ Len(s) % 2 = 0) THEN ErrNoPath("HexDecode")
    ELSE Ok(<<Len(s) \div 2>>)
\* the BLS key of a validator: p34 fails on a string that is not of 96 characters;
\* hex::decode(..)?, then .as_slice().try_into()? into [u8; BLS_PUBLIC_KEY_LEN],
\* an array of 48 bytes; the value is Some(key), the key held as its number of
\* bytes
bls_public_key(s, len96) ==
    IF len96 /\ Len(s) # 96 THEN ErrNoPath("InvalidBlsKeyLength")
    ELSE IF ~(IsHex(s) /\ Len(s) % 2 = 0) THEN ErrNoPath("HexDecode")
    ELSE IF Len(s) \div 2 # 48 THEN ErrNoPath("TryFromSlice")
    ELSE Ok(<<Len(s) \div 2>>)

\* ValidatorSet::new of the block library refuses an empty list
ValidatorSet_new(list) ==
    IF list # <<>> THEN Ok(Len(list)) ELSE ErrNoPath("InvalidArg")

\* CryptoSignature::from_r_s_str of the block library: two hex strings of 32 bytes
from_r_s_str(r, s) ==
    IF IsHex(r) /\ IsHex(s) /\ Len(r) = 64 /\ Len(s) = 64 THEN Ok(TRUE)
    ELSE ErrNoPath("InvalidSignature")

\* MsgAddressInt::from_str of the block library: workchain, a colon, 64 hex digits
MsgAddressInt_from_str(s) ==
    IF Len(s) = 66 /\ s[1] \in {"0", "-"} /\ s[2] = ":" /\ IsHex(SubSeq(s, 3, 66))
    THEN Ok(TRUE) ELSE ErrNoPath("InvalidAddress")

\* the reads of a decoder, on the object pm of the configuration cfg
RECURSIVE RunReads(_, _, _)
RECURSIVE ContEach(_, _, _, _, _)
Read(cfg, pm, row) ==
    CASE row.g \in {"num", "num_as"} ->
            Let(get_num(pm, row.f),
                LAMBDA r : IF r.ok /\ row.g = "num_as" THEN Ok(as_unsigned(r.val, row.w))
                           ELSE r)
      [] row.g = "grams" -> get_grams(pm, row.f)
      [] row.g = "bool" -> get_bool(pm, row.f)
      [] row.g = "uint256" -> get_uint256(pm, row.f)
      [] row.g = "str" -> get_str(pm, row.f)
      [] row.g = "obj" ->
            Let(get_obj(pm, row.f),
                LAMBDA o : IF o.ok THEN RunReads(cfg, o.val, row.sub) ELSE o)
      [] row.g = "vec" ->
            Let(get_vec(pm, row.f),
                LAMBDA v : IF v.ok
                           THEN ContEach(cfg, IF row.prev = "config" THEN cfg ELSE pm,
                                         row.cname, v.val, row.sub)
                           ELSE IF row.opt THEN Ok(<<>>) ELSE v)
      [] row.g = "hex" ->
            Let(get_str(pm, row.f), LAMBDA x : IF x.ok THEN hex_decode(x.val) ELSE x)
      [] row.g = "pubkey" ->
            Let(get_str(pm, row.f),
                LAMBDA x : IF x.ok THEN SigPubKey_from_bytes(Len(x.val) \div 2) ELSE x)
      [] row.g = "pubkey_str" ->
            Let(get_str(pm, row.f), LAMBDA x : IF x.ok THEN SigPubKey_from_str(x.val) ELSE x)
      [] row.g = "opt_uint256" ->
            Let(get_uint256(pm, row.f), LAMBDA a : Ok(IF a.ok THEN <<a.val>> ELSE <<>>))
      [] row.g = "none" -> Ok(<<>>)
      [] row.g = "opt_bls" ->
            Let(get_str(pm, row.f),
                LAMBDA x : IF x.ok THEN bls_public_key(x.val, row.len96) ELSE Ok(<<>>))
      [] row.g = "soft_u32" -> Ok(get_u32(pm, row.f, ZeroMag))
      [] row.g = "amount" ->
            Let(IF get_str(pm, DecName(row.f)).ok THEN get_str(pm, DecName(row.f))
                ELSE get_str(pm, row.f),
                LAMBDA x : IF ~x.ok THEN x
                           ELSE IF Grams_from_str(x.val).ok THEN Ok(x.val)
                           ELSE ErrNoPath("ParseInt"))
      [] row.g = "shard" ->
            Let(get_str(pm, row.f),
                LAMBDA x : IF x.ok THEN u64_from_str_radix(x.val) ELSE x)
      [] row.g = "boc" ->
            Let(get_base64(pm, row.f),
                LAMBDA b : IF b.ok THEN read_single_root_boc(b.val) ELSE b)
      [] row.g = "sig" ->
            Let(<<get_str(pm, row.f), get_str(pm, row.s)>>,
                LAMBDA x : IF ~x[1].ok THEN x[1] ELSE IF ~x[2].ok THEN x[2]
                           ELSE from_r_s_str(x[1].val, x[2].val))
      [] row.g = "new_set" ->
            Let(get_vec(pm, row.f),
                LAMBDA v : IF v.ok THEN ValidatorSet_new(v.val) ELSE v)
      [] row.g = "match" ->
            Let(get_bool(pm, row.f),
                LAMBDA b : IF b.ok THEN RunReads(cfg, pm, IF b.val THEN row.yes ELSE row.no)
                           ELSE b)
RunReads(cfg, pm, reads) == FirstErr([i \in 1..Len(reads) |-> Read(cfg, pm, reads[i])])
\* vec.iter().try_for_each(|v| { let p = PathMap::cont(prev, cname, v)?; reads })
ContEach(cfg, prev, cname, vec, reads) ==
    FirstErr([i \in 1..Len(vec) |->
        Let(cont(prev, cname, vec[i]),
            LAMBDA c : IF c.ok THEN RunReads(cfg, c.val, reads) ELSE c)])

\* StateParser::parse_param_limits
ParamLimitsReads == <<NAs("underload", 32), NAs("soft_limit", 32), NAs("hard_limit", 32)>>
\* StateParser::parse_block_limits_struct
BlockLimitsReads ==
    <<O("bytes", ParamLimitsReads), O("gas", ParamLimitsReads),
      O("lt_delta", ParamLimitsReads)>>
\* StateParser::parse_msg_forward_prices_struct
MsgForwardPricesReads ==
    <<NAs("lump_price", 64), NAs("bit_price", 64), NAs("cell_price", 64), NAs("ihr_price_factor", 32),
      NAs("first_frac", 16), NAs("next_frac", 16)>>
\* StateParser::parse_gas_limits_struct
GasLimitsReads ==
    <<NAs("gas_price", 64), NAs("gas_limit", 64), NAs("special_gas_limit", 64), NAs("gas_credit", 64),
      NAs("block_gas_limit", 64), NAs("freeze_due_limit", 64), NAs("delete_due_limit", 64),
      NAs("flat_gas_limit", 64), NAs("flat_gas_price", 64)>>
\* StateParser::parse_critical_params
CriticalParamsReads ==
    <<NAs("min_tot_rounds", 8), NAs("max_tot_rounds", 8), NAs("min_wins", 8), NAs("max_losses", 8),
      NAs("min_store_sec", 32), NAs("max_store_sec", 32), NAs("bit_price", 32), NAs("cell_price", 32)>>
\* StateParser::parse_catchain_config (isolate_mc_validators is optional)
CatchainConfigReads ==
    <<B("shuffle_mc_validators"), NAs("mc_catchain_lifetime", 32),
      NAs("shard_catchain_lifetime", 32), NAs("shard_validators_lifetime", 32),
      NAs("shard_validators_num", 32)>>
\* StateParser::parse_consensus_config
ConsensusConfigReads ==
    <<B("new_catchain_ids"), NAs("round_candidates", 32), NAs("next_candidate_delay_ms", 32),
      NAs("consensus_timeout_ms", 32), NAs("fast_attempts", 32), NAs("attempt_duration", 32),
      NAs("catchain_max_deps", 32), NAs("max_block_bytes", 32), NAs("max_collated_bytes", 32)>>
\* StateParser::parse_delector_params
DelectorParamsReads ==
    <<NAs("delections_step", 32), H("validator_init_code_hash"),
      H("staker_init_code_hash")>>
\* StateParser::parse_smft_params
SmftParamsReads ==
    <<NAs("min_forwarding_neighbours_count", 32), NAs("max_forwarding_neighbours_count", 32),
      NAs("min_far_neighbours_count", 32), NAs("max_far_neighbours_count", 32),
      NAs("min_block_sync_period_ms", 32), NAs("max_block_sync_period_ms", 32),
      NAs("min_far_neighbours_sync_period_ms", 32), NAs("max_far_neighbours_sync_period_ms", 32),
      NAs("far_neighbours_resync_period_ms", 32), NAs("block_sync_lifetime_period_ms", 32),
      NAs("block_lifetime_period_ms", 32), NAs("verification_obligation_cutoff_numerator", 32),
      NAs("verification_obligation_cutoff_denominator", 32), NAs("delivery_cutoff_numerator", 32),
      NAs("delivery_cutoff_denominator", 32), NAs("manual_candidate_loading_delay_ms", 32),
      NAs("mc_allowed_force_delivery_delay_ms", 32),
      NAs("mc_force_delivery_duplication_factor_numerator", 32),
      NAs("mc_force_delivery_duplication_factor_denominator", 32),
      NAs("mc_max_delivery_waiting_timeout_ms", 32), B("use_debug_bls_keys")>>
\* StateParser::parse_storage_prices: one element of p18
StoragePricesReads ==
    <<NAs("utime_since", 32), NAs("bit_price_ps", 64), NAs("cell_price_ps", 64),
      NAs("mc_bit_price_ps", 64), NAs("mc_cell_price_ps", 64)>>
\* parse_separated_block_id_ext
SeparatedBlockIdReads ==
    <<NAs("wc", 32), Shard("shard"), NAs("seqno", 32), H("root_hash"), H("file_hash")>>
\* StateParser::parse_mesh_config: one element of p58
MeshConfigReads ==
    <<NAs("network_id", 32), OptV("hardforks", "self", <<"hardforks">>, SeparatedBlockIdReads),
      O("zerostate", SeparatedBlockIdReads), B("is_active"), NAs("currency_id", 32),
      O("init_block", SeparatedBlockIdReads), H("emergency_guard_addr"),
      H("pull_addr"), H("minter_addr")>>
\* StateParser::parse_p12: one element of p12
WorkchainReads ==
    <<NAs("workchain_id", 32), NAs("enabled_since", 32), NAs("min_split", 8), NAs("max_split", 8),
      NAs("flags", 16), B("active"), B("accept_msgs"), H("zerostate_root_hash"),
      H("zerostate_file_hash"), NAs("version", 32), B("basic"),
      Match("basic",
            <<NAs("vm_version", 32), NAs("vm_mode", 64)>>,
            <<NAs("min_addr_len", 16), NAs("max_addr_len", 16), NAs("addr_len_step", 16),
              NAs("workchain_type_id", 32)>>)>>
\* StateParser::parse_validator_set
ValidatorSetReads ==
    <<NAs("utime_since", 32), NAs("utime_until", 32), NAs("main", 16),
      V("list", "self", <<"p">>,
        <<Hx("public_key"), NAs("weight", 64), OptH("adnl_addr"),
          OptBls("bls_public_key", FALSE), PubKey("public_key")>>),
      NewSet("list")>>
\* the closure of p34
CurValidatorsReads ==
    <<V("list", "config", <<"p", "3", "4">>,
        <<OptBls("bls_public_key", TRUE), PubKeyStr("public_key"), NAs("weight", 64),
          NoAdnl>>),
      NAs("utime_since", 32), NAs("utime_until", 32), NAs("main", 16), NewSet("list")>>
\* the closure of p39: one element
ValidatorKeysReads ==
    <<H("map_key"), H("adnl_addr"), Hx("temp_public_key"), NAs("seqno", 32),
      NAs("valid_until", 32), S("signature_r"), S("signature_s"),
      PubKey("temp_public_key"), Sig("signature_r", "signature_s")>>
\* the closure of p42
CopyleftReads ==
    <<G("threshold"),
      V("payouts", "config", <<"p", "4", "2">>,
        <<SoftU32("license_type"), SoftU32("payout_percent")>>)>>

\* the reads of the closure parse_parameter is given for each parameter
ObjectReads ==
    [n \in {6, 8, 11, 13, 14, 15, 16, 17, 20, 21, 22, 23, 24, 25, 28, 29, 30,
            32, 33, 34, 35, 36, 37, 42, 62} |->
        CASE n = 6 -> <<G("mint_new_price"), G("mint_add_price")>>
          [] n = 8 -> <<NAs("version", 32), NAs("capabilities", 64)>>
          [] n = 11 -> <<O("normal_params", CriticalParamsReads),
                         O("critical_params", CriticalParamsReads)>>
          [] n = 13 -> <<Boc("boc")>>
          [] n = 14 -> <<G("masterchain_block_fee"), G("basechain_block_fee")>>
          [] n = 15 -> <<NAs("validators_elected_for", 32), NAs("elections_start_before", 32),
                         NAs("elections_end_before", 32), NAs("stake_held_for", 32)>>
          [] n = 16 -> <<N16("min_validators"), N16("max_validators"),
                         N16("max_main_validators")>>
          [] n = 17 -> <<G("min_stake"), G("max_stake"), G("min_total_stake"),
                         NAs("max_stake_factor", 32)>>
          [] n \in {20, 21} -> GasLimitsReads
          [] n \in {22, 23} -> BlockLimitsReads
          [] n \in {24, 25} -> MsgForwardPricesReads
          [] n = 28 -> CatchainConfigReads
          [] n = 29 -> ConsensusConfigReads
          [] n = 30 -> DelectorParamsReads
          [] n \in {32, 33, 35, 36, 37} -> ValidatorSetReads
          [] n = 34 -> CurValidatorsReads
          [] n = 42 -> CopyleftReads
          [] n = 62 -> SmftParamsReads]

\* the reads of the closure parse_array is given, for each element of the
\* parameters whose elements are objects
ElementReads ==
    [n \in {7, 12, 18, 39, 58} |->
        CASE n = 7 -> <<Amount("value"), NAs("currency", 32)>>
          [] n = 12 -> WorkchainReads
          [] n = 18 -> StoragePricesReads
          [] n = 39 -> ValidatorKeysReads
          [] n = 58 -> MeshConfigReads]

\* Param with a bug: the closure of p1 builds the variant of p0
Param_p1_as_p0(n, body) == [id |-> IF n = 1 THEN 0 ELSE n, body |-> body]
\* ConfigParamEnum::ConfigParamN: the closure of the statement of p<n> builds
\* the variant N; the identifier, and what was read
Param(n, body) == [id |-> n, body |-> body]

\* the closure of p44: one element
decode_p44_element(v) ==
    IF ~as_str(v).ok THEN ErrNoPath("AddressNotString") ELSE MsgAddressInt_from_str(v.s)

\* the closure `f` parse_parameter is given for parameter num: Ok or the error
decode_object(cfg, num, p) == RunReads(cfg, p, ObjectReads[num])

\* the closure `f` parse_array is given for parameter num
decode_array(cfg, num, vec) ==
    IF num \in DOMAIN ElementReads
    THEN ContEach(cfg, cfg, <<"p">> \o DecStringSmall(num), vec, ElementReads[num])
    ELSE FirstErr([i \in 1..Len(vec) |->
            IF num = 31 THEN as_uint256(vec[i]) ELSE decode_p44_element(vec[i])])

(***************************************************************************)
(* StateParser::parse_config.  `self` is the parser: its mask and the      *)
(* Configuration Set it has built so far, a function from the identifiers  *)
(* set to the parameters.                                                  *)
(***************************************************************************)
\* format!("p{}", num)
PNames == [num \in Bits |-> <<"p">> \o DecStringSmall(num)]
PName(num) == PNames[num]

\* ConfigParams::set_config of the block library: the parameter is stored
\* under its identifier
set_config(cfg, param) == (param.id :> param) @@ cfg

\* fail!("parameter p{} not found: {}", num, err)
ParameterNotFound(num, err) == Err("ParameterNotFound", err.err.path, PName(num))

\* parse_parameter with a bug: the mask is not consulted
parse_parameter_lenient(self, cfg, num) ==
    LET p == get_obj(cfg, PName(num))
    IN  IF p.ok
        THEN Let(decode_object(cfg, num, p.val),
                 LAMBDA r : IF r.ok THEN Ok(set_config(self.config, Param(num, r.val)))
                            ELSE r)
        ELSE Ok(self.config)
\* parse_parameter with a bug: the closure's error is dropped when the mask bit
\* is clear
parse_parameter_content_masked(self, cfg, num) ==
    LET p == get_obj(cfg, PName(num))
    IN  IF p.ok
        THEN Let(decode_object(cfg, num, p.val),
                 LAMBDA r : IF r.ok THEN Ok(set_config(self.config, Param(num, r.val)))
                            ELSE IF is_need(self.mandatory_params, num) THEN r
                            ELSE Ok(self.config))
        ELSE IF is_need(self.mandatory_params, num) THEN ParameterNotFound(num, p)
        ELSE Ok(self.config)
\* StateParser::parse_parameter
parse_parameter(self, cfg, num) ==
    LET p == get_obj(cfg, PName(num))
    IN  IF p.ok
        THEN Let(decode_object(cfg, num, p.val),
                 LAMBDA r : IF r.ok THEN Ok(set_config(self.config, Param(num, r.val)))
                            ELSE r)
        ELSE IF is_need(self.mandatory_params, num) THEN ParameterNotFound(num, p)
        ELSE Ok(self.config)

\* parse_array with a bug: an absent parameter fails whatever the mask says
parse_array_strict(self, cfg, num) ==
    LET v == get_vec(cfg, PName(num))
    IN  IF v.ok
        THEN Let(decode_array(cfg, num, v.val),
                 LAMBDA r : IF r.ok THEN Ok(set_config(self.config, Param(num, r.val)))
                            ELSE r)
        ELSE ParameterNotFound(num, v)
\* StateParser::parse_array
parse_array(self, cfg, num) ==
    LET v == get_vec(cfg, PName(num))
    IN  IF v.ok
        THEN Let(decode_array(cfg, num, v.val),
                 LAMBDA r : IF r.ok THEN Ok(set_config(self.config, Param(num, r.val)))
                            ELSE r)
        ELSE IF is_need(self.mandatory_params, num) THEN ParameterNotFound(num, v)
        ELSE Ok(self.config)

\* StateParser::parse_uint256
parse_uint256(self, cfg, num) ==
    LET h == get_uint256(cfg, PName(num))
    IN  IF h.ok THEN Ok(set_config(self.config, Param(num, h.val)))
        ELSE IF is_need(self.mandatory_params, num) THEN ParameterNotFound(num, h)
        ELSE Ok(self.config)

\* StateParser::parse_param_set_params and the set_config of parse_param_set
parse_param_set_params(self, cfg, num) ==
    LET v == get_vec(cfg, PName(num))
    IN  IF v.ok
        THEN Let(FirstErr([i \in 1..Len(v.val) |-> as_uint(v.val[i])]),
                 LAMBDA r : IF r.ok THEN Ok(set_config(self.config, Param(num, r.val)))
                            ELSE r)
        ELSE IF is_need(self.mandatory_params, num) THEN v
        ELSE Ok(self.config)

\* a field of SlashingConfig::default() or FastFinalityConfig::default(): the
\* block library fixes the number; it is one no input below carries
FieldDefault == SmallMag(9)

SlashingFields ==
    <<"slashing_period_mc_blocks_count", "resend_mc_blocks_count", "min_samples_count",
      "collations_score_weight", "signing_score_weight",
      "min_slashing_protection_score", "z_param_numerator", "z_param_denominator">>
FastFinalityFields32 ==
    <<"split_merge_interval", "collator_range_len", "lost_collator_timeout",
      "mempool_validators_count", "mempool_rotated_count">>
FastFinalityFields16 ==
    <<"unreliability_fine", "unreliability_weak_fading", "unreliability_strong_fading",
      "unreliability_max", "unreliability_weight", "familiarity_collator_fine",
      "familiarity_msgpool_fine", "familiarity_fading", "familiarity_max",
      "familiarity_weight", "busyness_collator_fine", "busyness_msgpool_fine",
      "busyness_weight">>
FastFinalityFields8 == <<"candidates_percentile">>
RangeOf(seq) == {seq[i] : i \in DOMAIN seq}

\* p40 with a bug: the parameter is set only when p40 is there
parse_p40_if_present(self, cfg) ==
    LET p40 == get_obj(cfg, PName(40))
    IN  IF p40.ok
        THEN Ok(set_config(self.config,
                Param(40, [f \in RangeOf(SlashingFields) |->
                              get_u32(p40.val, <<f>>, FieldDefault)])))
        ELSE Ok(self.config)
\* parse_config, p40: the parameter is set whether or not p40 is there
parse_p40(self, cfg) ==
    LET p40 == get_obj(cfg, PName(40))
        slashing_config ==
            [f \in RangeOf(SlashingFields) |->
                IF p40.ok THEN get_u32(p40.val, <<f>>, FieldDefault) ELSE FieldDefault]
    IN  Ok(set_config(self.config, Param(40, slashing_config)))

\* p61 with a bug: an absent p61 fails when its mask bit is set
parse_p61_checked(self, cfg) ==
    LET p61 == get_obj(cfg, PName(61))
    IN  IF ~p61.ok /\ is_need(self.mandatory_params, 61) THEN ParameterNotFound(61, p61)
        ELSE Ok(self.config)
\* parse_config, p61: the parameter is set when p61 is an object
parse_p61(self, cfg) ==
    LET p61 == get_obj(cfg, PName(61))
        ff_config ==
            [f \in RangeOf(FastFinalityFields32) \cup RangeOf(FastFinalityFields16)
                   \cup RangeOf(FastFinalityFields8) |->
                IF f \in RangeOf(FastFinalityFields32)
                THEN get_u32(p61.val, <<f>>, FieldDefault)
                ELSE IF f \in RangeOf(FastFinalityFields16)
                THEN get_u16(p61.val, <<f>>, FieldDefault)
                ELSE get_u8(p61.val, <<f>>, FieldDefault)]
    IN  IF p61.ok THEN Ok(set_config(self.config, Param(61, ff_config)))
        ELSE Ok(self.config)

\* StepOrder with a bug: the statement of p1 comes before the one of p0
StepOrderSwapped ==
    <<1, 0, 2, 3, 4, 5, 6, 7, 8, 9, 10, 11, 12, 13, 14, 15, 16, 17, 18,
      20, 21, 22, 23, 24, 25, 28, 29, 30, 31, 32, 33, 34, 35, 36, 37, 39,
      40, 42, 44, 58, 61, 62>>
\* the parameters parse_config decodes, in the order of its statements
StepOrder ==
    <<0, 1, 2, 3, 4, 5, 6, 7, 8, 9, 10, 11, 12, 13, 14, 15, 16, 17, 18,
      20, 21, 22, 23, 24, 25, 28, 29, 30, 31, 32, 33, 34, 35, 36, 37, 39,
      40, 42, 44, 58, 61, 62>>

\* one statement of parse_config
parse_step(self, cfg, num) ==
    CASE num \in 0..5 -> parse_uint256(self, cfg, num)
      [] num \in {7, 12, 18, 31, 39, 44, 58} -> parse_array(self, cfg, num)
      [] num \in {9, 10} -> parse_param_set_params(self, cfg, num)
      [] num = 40 -> parse_p40(self, cfg)
      [] num = 61 -> parse_p61(self, cfg)
      [] OTHER -> parse_parameter(self, cfg, num)

\* the value the statement of parameter num matches on: what get_uint256,
\* get_vec or get_obj gives for the field p<num>
parameter_field(cfg, num) ==
    CASE num \in 0..5 -> get_uint256(cfg, PName(num))
      [] num \in {7, 9, 10, 12, 18, 31, 39, 44, 58} -> get_vec(cfg, PName(num))
      [] OTHER -> get_obj(cfg, PName(num))
\* what the statement of parameter num makes of the field p it matched: the
\* closure's result (for p0..p5 the closure wraps the hash and cannot fail)
parameter_content(cfg, num, p) ==
    CASE num \in 0..5 -> Ok(p)
      [] num \in {9, 10} -> FirstErr([i \in 1..Len(p) |-> as_uint(p[i])])
      [] num \in {7, 12, 18, 31, 39, 44, 58} -> decode_array(cfg, num, p)
      [] OTHER -> decode_object(cfg, num, p)

\* the statements of parse_config, each on the parser as parse_config is given
\* it (no statement reads the Configuration Set built so far), with their
\* positions in StepOrder
Statements(self, cfg) ==
    {<<i, parse_step(self, cfg, StepOrder[i])>> : i \in DOMAIN StepOrder}

\* StateParser::parse_config: `?` returns the error of the first statement that
\* fails; else the Configuration Set holds what the statements set, in order
StateParser_parse_config(self, cfg) ==
    Let(Statements(self, cfg),
        LAMBDA rs :
            IF \E p \in rs : ~p[2].ok
            THEN (CHOOSE p \in rs : ~p[2].ok /\ \A q \in rs : ~q[2].ok => p[1] <= q[1])[2]
            ELSE Ok([n \in UNION {DOMAIN p[2].val : p \in rs} |->
                        (CHOOSE p \in rs :
                            /\ n \in DOMAIN p[2].val
                            /\ \A q \in rs : n \in DOMAIN q[2].val => q[1] <= p[1])[2].val[n]]))

\* the statements of parse_config that run, given the results rs of all of
\* them: `?` leaves the function at the first one that fails
executed_of(rs) ==
    IF \E p \in rs : ~p[2].ok
    THEN SubSeq(StepOrder, 1,
                (CHOOSE p \in rs : ~p[2].ok /\ \A q \in rs : ~q[2].ok => p[1] <= q[1])[1])
    ELSE StepOrder
executed(self, cfg) == Let(Statements(self, cfg), LAMBDA rs : executed_of(rs))

\* the identifiers given to set_config during parse_config, in the order of
\* the calls: every statement that runs and does not fail calls it at most
\* once, with the variant its closure built; rs holds the results of the
\* statements on the parser `self`
RECURSIVE writes_from(_, _, _)
writes_from(self, rs, i) ==
    IF i > Len(executed_of(rs)) THEN <<>>
    ELSE LET r == (CHOOSE p \in rs : p[1] = i)[2]
             set == IF r.ok THEN {r.val[n].id : n \in DOMAIN r.val \ DOMAIN self.config}
                    ELSE {}
         IN  (IF set = {} THEN <<>> ELSE <<CHOOSE n \in set : TRUE>>)
             \o writes_from(self, rs, i + 1)
writes(self, cfg) == Let(Statements(self, cfg), LAMBDA rs : writes_from(self, rs, 1))

\* StateParser::new
StateParser_new == [mandatory_params |-> ZeroMask, config |-> <<>>]

\* StateParser::for_zero_state
StateParser_for_zero_state == [mandatory_params |-> ZeroStateMask, config |-> <<>>]

\* parse_config_with_mandatory_params
parse_config_with_mandatory_params(map, mandatories) ==
    Let([StateParser_new EXCEPT !.mandatory_params = mask_of_mandatories(mandatories)],
        LAMBDA parser : StateParser_parse_config(parser, PathMap_new(map)))

\* parse_config
parse_config(map) == parse_config_with_mandatory_params(map, <<>>)

(***************************************************************************)
(* StateParser::parse_state_unchecked.  The state is the fields of            *)
(* ShardStateUnsplit the parser writes; `custom` is the Option of the      *)
(* McStateExtra, an Option being the sequence of what it holds.            *)
(***************************************************************************)
ZeroHash == [i \in 1..64 |-> "0"]
\* ShardStateUnsplit::with_ident(ShardIdent::masterchain()), after
\* set_min_ref_mc_seqno(u32::MAX)
StateDefault ==
    [min_ref_mc_seqno |-> AllOnes(32), global_id |-> ZeroMag, gen_time |-> ZeroMag,
     total_balance |-> ZeroMag, custom |-> <<>>, accounts |-> <<>>,
     libraries |-> <<>>]
\* McStateExtra::default()
ExtraDefault ==
    [config |-> <<>>, config_addr |-> ZeroHash, validator_list_hash_short |-> ZeroMag,
     catchain_seqno |-> ZeroMag, nx_cc_updated |-> FALSE, global_balance |-> ZeroMag,
     after_key_block |-> FALSE]

\* `v as i32`, `v as u32` of the number read
Narrow(r, w) == IF r.ok THEN Ok(as_unsigned(r.val, w)) ELSE r

\* gated with a bug: a field that cannot be read never fails the parse
gated_lenient(self, r, default) == IF r.ok THEN r ELSE Ok(default)
\* match r { Ok(v) => field = v,
\*           Err(err) => if self.mandatory_params != 0 { return Err(err) } }:
\* the content of the field afterwards, or the error returned
gated(self, r, default) ==
    IF r.ok THEN r
    ELSE IF self.mandatory_params # ZeroMask THEN r
    ELSE Ok(default)

\* Account::construct_from_bytes of the block library and Account::get_id: the
\* bytes of SampleBoc hold an account with an address, those of NoIdBoc the
\* account that has none
NoIdBoc == <<"t", "e", "6", "d">>
\* Account_construct_from_bytes with a bug: the account without an address is
\* refused
Account_construct_from_bytes_strict(bytes) ==
    IF bytes = <<181, 238, 156>> THEN Ok([id |-> <<bytes>>])
    ELSE ErrNoPath("BocDecode")
Account_construct_from_bytes(bytes) ==
    IF bytes = <<181, 238, 156>> THEN Ok([id |-> <<bytes>>])
    ELSE IF bytes = <<181, 238, 157>> THEN Ok([id |-> <<>>])
    ELSE ErrNoPath("BocDecode")

\* the accounts of the state: if let Ok(accounts) = map_path.get_vec("accounts")
parse_accounts(map_path) ==
    Let(get_vec(map_path, <<"accounts">>),
        LAMBDA v :
            IF ~v.ok THEN Ok(<<>>)
            ELSE FirstErr([i \in 1..Len(v.val) |->
                    Let(cont(map_path, <<"accounts">>, v.val[i]),
                        LAMBDA c :
                            IF ~c.ok THEN c
                            ELSE Let(get_base64(c.val, <<"boc">>),
                                     LAMBDA b : IF b.ok
                                                THEN Account_construct_from_bytes(b.val)
                                                ELSE b))]))
\* shard_accounts.set_builder_serialized(account_id, ..) for the accounts that
\* have an identifier: the accounts by identifier, the last one set staying
ShardAccounts(accounts) ==
    [id \in {accounts[i].id[1] : i \in {j \in DOMAIN accounts : accounts[j].id # <<>>}} |->
        accounts[CHOOSE i \in DOMAIN accounts :
                    /\ accounts[i].id = <<id>>
                    /\ \A j \in DOMAIN accounts : accounts[j].id = <<id>> => j <= i]]

\* one library: its hash, its code and its publishers
parse_library(library) ==
    Let(get_uint256(library, <<"hash">>),
        LAMBDA id :
            IF ~id.ok THEN id
            ELSE Let(get_base64(library, <<"lib">>),
                LAMBDA lib :
                    IF ~lib.ok THEN lib
                    ELSE IF ~read_single_root_boc(lib.val).ok
                    THEN read_single_root_boc(lib.val)
                    ELSE Let(get_vec(library, <<"publishers">>),
                        LAMBDA ps :
                            IF ~ps.ok THEN ps
                            ELSE Let(FirstErr([i \in 1..Len(ps.val) |->
                                                  as_uint256(ps.val[i])]),
                                LAMBDA keys :
                                    IF ~keys.ok THEN keys
                                    ELSE Ok([id |-> id.val, lib |-> lib.val,
                                             publishers |-> keys.val])))))
\* the libraries of the state: if let Ok(libraries) = map_path.get_vec("libraries")
parse_libraries(map_path) ==
    Let(get_vec(map_path, <<"libraries">>),
        LAMBDA v :
            IF ~v.ok THEN Ok(<<>>)
            ELSE FirstErr([i \in 1..Len(v.val) |->
                    Let(cont(map_path, <<"libraries">>, v.val[i]),
                        LAMBDA c : IF c.ok THEN parse_library(c.val) ELSE c)]))
\* self.state.libraries_mut().set(&id, &lib): the libraries by hash
Libraries(libs) ==
    [id \in {libs[i].id : i \in DOMAIN libs} |->
        libs[CHOOSE i \in DOMAIN libs :
                /\ libs[i].id = id
                /\ \A j \in DOMAIN libs : libs[j].id = id => j <= i]]

\* the arm Ok(master) after parse_config: the five gated fields, then
\* after_key_block; params is the Configuration Set decoded
parse_master_fields(self, master, params) ==
    Let(FirstErr([i \in 1..5 |->
            CASE i = 1 ->
                    gated(self, get_uint256(master, <<"config_addr">>),
                          ExtraDefault.config_addr)
              [] i = 2 ->
                    gated(self, Narrow(get_num(master, <<"validator_list_hash_short">>), 32),
                          ExtraDefault.validator_list_hash_short)
              [] i = 3 ->
                    gated(self, Narrow(get_num(master, <<"catchain_seqno">>), 32),
                          ExtraDefault.catchain_seqno)
              [] i = 4 ->
                    gated(self, get_bool(master, <<"nx_cc_updated">>),
                          ExtraDefault.nx_cc_updated)
              [] i = 5 ->
                    gated(self, get_grams(master, <<"global_balance">>),
                          ExtraDefault.global_balance)]),
        LAMBDA f :
            IF ~f.ok THEN f
            ELSE Ok([config |-> params, config_addr |-> f.val[1],
                     validator_list_hash_short |-> f.val[2],
                     catchain_seqno |-> f.val[3],
                     nx_cc_updated |-> f.val[4],
                     global_balance |-> f.val[5],
                     after_key_block |-> TRUE]))

\* parse_master with a bug: config is gated like the fields after it, a master
\* without config keeps an empty Configuration Set when the mask is zero
parse_master_config_gated(self, master) ==
    Let(get_obj(master, <<"config">>),
        LAMBDA config_obj :
            IF ~config_obj.ok
            THEN IF self.mandatory_params # ZeroMask THEN config_obj
                 ELSE parse_master_fields(self, master, <<>>)
            ELSE Let(StateParser_parse_config(self, config_obj.val),
                LAMBDA params :
                    IF ~params.ok THEN params
                    ELSE parse_master_fields(self, master, params.val)))
\* the arm Ok(master) of match map_path.get_obj("master"): the McStateExtra
\* written by write_custom, or the error returned
parse_master(self, master) ==
    Let(get_obj(master, <<"config">>),
        LAMBDA config_obj :
            IF ~config_obj.ok THEN config_obj
            ELSE Let(StateParser_parse_config(self, config_obj.val),
                LAMBDA params :
                    IF ~params.ok THEN params
                    ELSE parse_master_fields(self, master, params.val)))

\* match map_path.get_obj("master"): the custom field of the state afterwards
parse_custom(self, map_path) ==
    Let(get_obj(map_path, <<"master">>),
        LAMBDA master :
            IF master.ok
            THEN Let(parse_master(self, master.val),
                     LAMBDA extra : IF extra.ok THEN Ok(<<extra.val>>) ELSE extra)
            ELSE gated(self, master, StateDefault.custom))

\* StateParser::parse_state_unchecked
StateParser_parse_state_unchecked(self, map) ==
    Let(PathMap_new(map),
        LAMBDA map_path :
            Let(FirstErr([i \in 1..6 |->
                    CASE i = 1 ->
                            gated(self, Narrow(get_num(map_path, <<"global_id">>), 32),
                                  StateDefault.global_id)
                      [] i = 2 ->
                            gated(self, Narrow(get_num(map_path, <<"gen_utime">>), 32),
                                  StateDefault.gen_time)
                      [] i = 3 ->
                            gated(self, get_grams(map_path, <<"total_balance">>),
                                  StateDefault.total_balance)
                      [] i = 4 -> parse_custom(self, map_path)
                      [] i = 5 -> parse_accounts(map_path)
                      [] i = 6 -> parse_libraries(map_path)]),
                LAMBDA f :
                    IF ~f.ok THEN f
                    ELSE Ok([min_ref_mc_seqno |-> StateDefault.min_ref_mc_seqno,
                             global_id |-> f.val[1], gen_time |-> f.val[2],
                             total_balance |-> f.val[3], custom |-> f.val[4],
                             accounts |-> ShardAccounts(f.val[5]),
                             libraries |-> Libraries(f.val[6])])))

\* parse_state
parse_state(map) ==
    StateParser_parse_state_unchecked(StateParser_for_zero_state, map)
\* parse_state_unchecked
parse_state_unchecked(map) ==
    StateParser_parse_state_unchecked(StateParser_new, map)

(***************************************************************************)
(* parse_remp_status.                                                      *)
(***************************************************************************)
\* MASTERCHAIN_ID (-1 as an i32) and SHARD_FULL (0x8000000000000000)
MasterchainId == AllOnes(32)
ShardFull == Pow2(63)
\* ShardIdent::with_tagged_prefix and BlockIdExt::with_params of the block
\* library
ShardIdent(workchain_id, prefix) == [workchain_id |-> workchain_id, prefix |-> prefix]
BlockIdExt(shard_id, seq_no, root_hash, file_hash) ==
    [shard_id |-> shard_id, seq_no |-> seq_no, root_hash |-> root_hash,
     file_hash |-> file_hash]
\* BlockIdExt::default()
BlockIdExtDefault == BlockIdExt(ShardIdent(ZeroMag, ShardFull), ZeroMag, ZeroHash, ZeroHash)

\* parse_block_id_ext with a bug: the master-chain identifier is read from the
\* fields of the target block
parse_block_id_ext_one_set(map_path, mc) ==
    Let(FirstErr([i \in 1..5 |->
            CASE i = 1 -> Narrow(get_num(map_path, <<"wc">>), 32)
              [] i = 2 -> Let(get_str(map_path, <<"shard">>),
                              LAMBDA x : IF x.ok THEN u64_from_str_radix(x.val) ELSE x)
              [] i = 3 -> Narrow(get_num(map_path, <<"block_seqno">>), 32)
              [] i = 4 -> get_uint256(map_path, <<"block_id">>)
              [] i = 5 -> get_uint256(map_path, <<"block_file_hash">>)]),
        LAMBDA f :
            IF f.ok
            THEN Ok(BlockIdExt(ShardIdent(f.val[1], f.val[2]),
                               f.val[3], f.val[4], f.val[5]))
            ELSE f)
\* parse_block_id_ext
parse_block_id_ext(map_path, mc) ==
    IF mc
    THEN Let(FirstErr([i \in 1..3 |->
                CASE i = 1 -> Narrow(get_num(map_path, <<"mc_block_seqno">>), 32)
                  [] i = 2 -> get_uint256(map_path, <<"mc_block_id">>)
                  [] i = 3 -> get_uint256(map_path, <<"mc_block_file_hash">>)]),
             LAMBDA f :
                IF f.ok
                THEN Ok(BlockIdExt(ShardIdent(MasterchainId, ShardFull),
                                   f.val[1], f.val[2], f.val[3]))
                ELSE f)
    ELSE Let(FirstErr([i \in 1..5 |->
                CASE i = 1 -> Narrow(get_num(map_path, <<"wc">>), 32)
                  [] i = 2 -> Let(get_str(map_path, <<"shard">>),
                                  LAMBDA x : IF x.ok THEN u64_from_str_radix(x.val) ELSE x)
                  [] i = 3 -> Narrow(get_num(map_path, <<"block_seqno">>), 32)
                  [] i = 4 -> get_uint256(map_path, <<"block_id">>)
                  [] i = 5 -> get_uint256(map_path, <<"block_file_hash">>)]),
             LAMBDA f :
                IF f.ok
                THEN Ok(BlockIdExt(ShardIdent(f.val[1], f.val[2]),
                                   f.val[3], f.val[4], f.val[5]))
                ELSE f)

\* Result::unwrap_or_default
unwrap_or_default(r, default) == IF r.ok THEN r.val ELSE default

\* the inner matches of parse_remp_status with a bug: two levels of the
\* accepted kinds are exchanged
RempLevelSwapped ==
    [s \in {"IncludedIntoBlock", "IgnoredByCollator", "RejectedByCollator",
            "AcceptedByFullnode", "IgnoredByFullNode", "RejectedByFullnode",
            "Finalized", "IgnoredByMasterchain", "RejectedByMasterchain",
            "AcceptedByQueue", "IgnoredByQueue", "RejectedByQueue",
            "IncludedIntoAcceptedBlock", "IgnoredByShardchain",
            "RejectedByShardchain"} |->
        CASE s \in {"IncludedIntoBlock", "IgnoredByCollator", "RejectedByCollator"} ->
                "TonNode_RempCollator"
          [] s \in {"AcceptedByFullnode", "IgnoredByFullNode", "RejectedByFullnode"} ->
                "TonNode_RempFullnode"
          [] s \in {"IncludedIntoAcceptedBlock", "IgnoredByMasterchain",
                    "RejectedByMasterchain"} ->
                "TonNode_RempMasterchain"
          [] s \in {"AcceptedByQueue", "IgnoredByQueue", "RejectedByQueue"} ->
                "TonNode_RempQueue"
          [] s \in {"Finalized", "IgnoredByShardchain",
                    "RejectedByShardchain"} ->
                "TonNode_RempShardchain"]
\* the inner matches of parse_remp_status: the level of a kind
RempLevel ==
    [s \in {"IncludedIntoBlock", "IgnoredByCollator", "RejectedByCollator",
            "AcceptedByFullnode", "IgnoredByFullNode", "RejectedByFullnode",
            "Finalized", "IgnoredByMasterchain", "RejectedByMasterchain",
            "AcceptedByQueue", "IgnoredByQueue", "RejectedByQueue",
            "IncludedIntoAcceptedBlock", "IgnoredByShardchain",
            "RejectedByShardchain"} |->
        CASE s \in {"IncludedIntoBlock", "IgnoredByCollator", "RejectedByCollator"} ->
                "TonNode_RempCollator"
          [] s \in {"AcceptedByFullnode", "IgnoredByFullNode", "RejectedByFullnode"} ->
                "TonNode_RempFullnode"
          [] s \in {"Finalized", "IgnoredByMasterchain", "RejectedByMasterchain"} ->
                "TonNode_RempMasterchain"
          [] s \in {"AcceptedByQueue", "IgnoredByQueue", "RejectedByQueue"} ->
                "TonNode_RempQueue"
          [] s \in {"IncludedIntoAcceptedBlock", "IgnoredByShardchain",
                    "RejectedByShardchain"} ->
                "TonNode_RempShardchain"]

\* the match on the kind of parse_remp_status; a kind is the string as one
\* piece
remp_status(map_path, s) ==
    CASE s \in {"IncludedIntoBlock", "AcceptedByFullnode", "Finalized",
                "AcceptedByQueue", "IncludedIntoAcceptedBlock"} ->
            Let(parse_block_id_ext(map_path, FALSE),
                LAMBDA b :
                    IF ~b.ok THEN b
                    ELSE Ok([status |-> "TonNode_RempAccepted", level |-> RempLevel[s],
                             block_id |-> b.val,
                             master_id |->
                                 unwrap_or_default(parse_block_id_ext(map_path, TRUE),
                                                   BlockIdExtDefault)]))
      [] s = "Duplicate" ->
            Let(parse_block_id_ext(map_path, FALSE),
                LAMBDA b :
                    IF ~b.ok THEN b
                    ELSE Ok([status |-> "TonNode_RempDuplicate", block_id |-> b.val]))
      [] s \in {"IgnoredByCollator", "IgnoredByFullNode", "IgnoredByMasterchain",
                "IgnoredByQueue", "IgnoredByShardchain"} ->
            Let(parse_block_id_ext(map_path, FALSE),
                LAMBDA b :
                    IF ~b.ok THEN b
                    ELSE Ok([status |-> "TonNode_RempIgnored", level |-> RempLevel[s],
                             block_id |-> b.val]))
      [] s = "PutIntoQueue" -> Ok([status |-> "TonNode_RempNew"])
      [] s \in {"RejectedByCollator", "RejectedByFullnode", "RejectedByMasterchain",
                "RejectedByQueue", "RejectedByShardchain"} ->
            Let(parse_block_id_ext(map_path, FALSE),
                LAMBDA b :
                    IF ~b.ok THEN b
                    ELSE Let(get_str(map_path, <<"error">>),
                             LAMBDA e :
                                IF ~e.ok THEN e
                                ELSE Ok([status |-> "TonNode_RempRejected",
                                         level |-> RempLevel[s],
                                         block_id |-> b.val, error |-> e.val])))
      [] s = "SentToValidators" ->
            Let(FirstErr([i \in 1..2 |->
                    IF i = 1 THEN Narrow(get_num(map_path, <<"sent_to">>), 32)
                    ELSE Narrow(get_num(map_path, <<"total_validators">>), 32)]),
                LAMBDA f :
                    IF ~f.ok THEN f
                    ELSE Ok([status |-> "TonNode_RempSentToValidators",
                             sent_to |-> f.val[1], total_validators |-> f.val[2]]))
      [] s = "Timeout" -> Ok([status |-> "TonNode_RempTimeout"])
      [] OTHER -> ErrNoPath("UnknownStatus")

\* parse_remp_status: the receipt and the signature bytes
parse_remp_status(map) ==
    Let(PathMap_new(map),
        LAMBDA map_path :
            Let(FirstErr([i \in 1..5 |->
                    CASE i = 1 -> get_uint256(map_path, <<"source_id">>)
                      [] i = 2 -> get_base64(map_path, <<"signature">>)
                      [] i = 3 -> get_num(map_path, <<"timestamp">>)
                      [] i = 4 -> get_uint256(map_path, <<"message_id">>)
                      [] i = 5 ->
                            Let(get_str(map_path, <<"kind">>),
                                LAMBDA k : IF k.ok THEN remp_status(map_path, k.val[1])
                                           ELSE k)]),
                LAMBDA f :
                    IF ~f.ok THEN f
                    ELSE Ok([receipt |-> [message_id |-> f.val[4], status |-> f.val[5],
                                          timestamp |-> f.val[3], source_id |-> f.val[1]],
                             signature |-> f.val[2]])))

(***************************************************************************)
(* parse_block_proof.                                                      *)
(***************************************************************************)
\* MerkleProof::construct_from_cell, virtualize, Block::construct_from_cell and
\* read_info of the block library, on the one cell read_single_root_boc
\* yields here: the block of the proof, its shard, its sequence number and the
\* hash of its virtual root
ProofBlockInfo ==
    [shard |-> ShardIdent(ZeroMag, ShardFull), seq_no |-> SmallMag(1),
     repr_hash |-> [i \in 1..64 |-> "5"]]
read_info(root) ==
    IF root = <<181, 238, 156>> THEN Ok(ProofBlockInfo) ELSE ErrNoPath("InvalidData")

\* one turn of the loop over the signatures: the pair added to the bundle
sigpair(map_path, signature) ==
    Let(cont(map_path, <<"signatures">>, signature),
        LAMBDA c :
            IF ~c.ok THEN c
            ELSE Let(FirstErr([i \in 1..4 |->
                        CASE i = 1 -> get_uint256(c.val, <<"node_id">>)
                          [] i = 2 -> get_str(c.val, <<"r">>)
                          [] i = 3 -> get_str(c.val, <<"s">>)
                          [] i = 4 ->
                                IF get_str(c.val, <<"r">>).ok /\ get_str(c.val, <<"s">>).ok
                                THEN from_r_s_str(get_str(c.val, <<"r">>).val,
                                                  get_str(c.val, <<"s">>).val)
                                ELSE Ok(FALSE)]),
                     LAMBDA f :
                        IF ~f.ok THEN f
                        ELSE Ok([node_id_short |-> f.val[1],
                                 sign |-> [r |-> f.val[2], s |-> f.val[3]]])))

\* the arm Ok(signatures) with a bug: sig_weight is not read, the weight of the
\* bundle stays zero
block_signatures_unweighted(map_path, signatures) ==
    Let(FirstErr([i \in 1..3 |->
            CASE i = 1 -> FirstErr([j \in 1..Len(signatures) |->
                                        sigpair(map_path, signatures[j])])
              [] i = 2 -> Narrow(get_num(map_path, <<"validator_list_hash_short">>), 32)
              [] i = 3 -> Narrow(get_num(map_path, <<"catchain_seqno">>), 32)]),
        LAMBDA f :
            IF ~f.ok THEN f
            ELSE Ok(<<[validator_info |-> [validator_list_hash_short |-> f.val[2],
                                           catchain_seqno |-> f.val[3]],
                       pure_signatures |-> [weight |-> ZeroMag,
                                            signatures |-> f.val[1]]]>>))
\* the arm Ok(signatures): Some(BlockSignatures::with_params(..))
block_signatures(map_path, signatures) ==
    Let(FirstErr([i \in 1..4 |->
            CASE i = 1 -> Narrow(get_num(map_path, <<"sig_weight">>), 64)
              [] i = 2 -> FirstErr([j \in 1..Len(signatures) |->
                                        sigpair(map_path, signatures[j])])
              [] i = 3 -> Narrow(get_num(map_path, <<"validator_list_hash_short">>), 32)
              [] i = 4 -> Narrow(get_num(map_path, <<"catchain_seqno">>), 32)]),
        LAMBDA f :
            IF ~f.ok THEN f
            ELSE Ok(<<[validator_info |-> [validator_list_hash_short |-> f.val[3],
                                           catchain_seqno |-> f.val[4]],
                       pure_signatures |-> [weight |-> f.val[1],
                                            signatures |-> f.val[2]]]>>))

\* read_single_root_boc(base64_decode(map_path.get_str("proof")?)?)?
proof_root(map_path) ==
    Let(get_str(map_path, <<"proof">>),
        LAMBDA x :
            IF ~x.ok THEN x
            ELSE Let(base64_decode(x.val),
                     LAMBDA b : IF b.ok THEN read_single_root_boc(b.val) ELSE b))

\* parse_block_proof; an Option is the sequence of what it holds
parse_block_proof(map, block_file_hash) ==
    Let(PathMap_new(map),
        LAMBDA map_path :
            Let(proof_root(map_path),
                LAMBDA root :
                    IF ~root.ok THEN root
                    ELSE Let(FirstErr([i \in 1..2 |->
                                CASE i = 1 -> read_info(root.val)
                                  [] i = 2 ->
                                        Let(get_vec(map_path, <<"signatures">>),
                                            LAMBDA v :
                                                IF v.ok
                                                THEN block_signatures(map_path, v.val)
                                                ELSE Ok(<<>>))]),
                             LAMBDA f :
                                IF ~f.ok THEN f
                                ELSE Ok([proof_for |->
                                             BlockIdExt(f.val[1].shard, f.val[1].seq_no,
                                                        f.val[1].repr_hash,
                                                        block_file_hash),
                                         root |-> root.val,
                                         signatures |-> f.val[2]]))))

(***************************************************************************)
(* The JSON objects and field names given to the scalar decoders.          *)
(***************************************************************************)
\* magnitudes around the widths the decoders narrow to
SampleMags ==
    {ZeroMag, SmallMag(1), SmallMag(42), AllOnes(8), Pow2(8), AllOnes(16), Pow2(16),
     AllOnes(32), Pow2(32), AllOnes(63), Pow2(63), AllOnes(64)}
Alphabet == {"0", "x", "7", "A", "-", "+"}
RECURSIVE StringsUpTo(_)
StringsUpTo(n) ==
    IF n = 0 THEN {<<>>}
    ELSE StringsUpTo(n - 1) \cup
         {Append(s, c) : s \in StringsUpTo(n - 1), c \in Alphabet}
SampleStrings ==
    StringsUpTo(MaxStrLen)
    \cup {DecString(m) : m \in SampleMags \cup {Pow2(64)}}
    \cup {<<"-">> \o DecString(m) : m \in {Pow2(63), MulAdd(Pow2(63), 1, 1).mag}}
    \cup {<<"0", "x">> \o HexString(m) : m \in SampleMags}
    \cup {<<"0", "x">> \o HexStringUpper(m) : m \in SampleMags}
SampleValues ==
    {JPosInt(m) : m \in SampleMags}
    \cup {JNegInt(m) : m \in {SmallMag(1), SmallMag(42), Pow2(8), Pow2(63)}}
    \cup {JFloat, JNull, JBool(TRUE)}
    \cup {JStr(s) : s \in SampleStrings}
\* the values of the objects that hold both the field and its _dec twin
TwinValues ==
    {JPosInt(SmallMag(7)), JNegInt(SmallMag(7)), JFloat, JBool(TRUE),
     JStr(<<"4", "2">>), JStr(<<"0", "x", "2", "A">>), JStr(<<"z", "z">>)}
EmptyMap == <<>>
ScalarMaps ==
    {EmptyMap}
    \cup {(<<"x">> :> v) : v \in SampleValues}
    \cup {(<<"x", "_dec">> :> v) : v \in SampleValues}
    \cup {(<<"x">> :> v) @@ (<<"x", "_dec">> :> w) : v \in TwinValues, w \in TwinValues}
ScalarNames == {<<"x">>, <<"x", "_dec">>}
\* what the caller's field holds before get_u8/get_u16/get_u32
OldValues == {ZeroMag, SmallMag(7)}

(***************************************************************************)
(* The calls of the scalar decoders.                                       *)
(***************************************************************************)
Init ==
    /\ op = "idle"
    /\ arg = [map |-> EmptyMap]
    /\ ret = [ok |-> TRUE]
    /\ value = ZeroMag
    /\ mandatory_params = ZeroMask
    /\ config = <<>>
    /\ contexts = <<>>

GetNum ==
    /\ op = "idle"
    /\ \E map \in ScalarMaps, name \in ScalarNames :
          /\ op' = "get_num"
          /\ arg' = [map |-> map, name |-> name]
          /\ ret' = get_num(PathMap_new(map), name)
    /\ UNCHANGED <<value, mandatory_params, config, contexts>>

GetGrams ==
    /\ op = "idle"
    /\ \E map \in ScalarMaps, name \in ScalarNames :
          /\ op' = "get_grams"
          /\ arg' = [map |-> map, name |-> name]
          /\ ret' = get_grams(PathMap_new(map), name)
    /\ UNCHANGED <<value, mandatory_params, config, contexts>>

GetU32 ==
    /\ op = "idle"
    /\ \E map \in ScalarMaps, name \in ScalarNames, old \in OldValues :
          /\ op' = "get_u32"
          /\ arg' = [map |-> map, name |-> name, value |-> old]
          /\ value' = get_u32(PathMap_new(map), name, old)
    /\ ret' = [ok |-> TRUE]
    /\ UNCHANGED <<mandatory_params, config, contexts>>

GetU16 ==
    /\ op = "idle"
    /\ \E map \in ScalarMaps, name \in ScalarNames, old \in OldValues :
          /\ op' = "get_u16"
          /\ arg' = [map |-> map, name |-> name, value |-> old]
          /\ value' = get_u16(PathMap_new(map), name, old)
    /\ ret' = [ok |-> TRUE]
    /\ UNCHANGED <<mandatory_params, config, contexts>>

GetU8 ==
    /\ op = "idle"
    /\ \E map \in ScalarMaps, name \in ScalarNames, old \in OldValues :
          /\ op' = "get_u8"
          /\ arg' = [map |-> map, name |-> name, value |-> old]
          /\ value' = get_u8(PathMap_new(map), name, old)
    /\ ret' = [ok |-> TRUE]
    /\ UNCHANGED <<mandatory_params, config, contexts>>

GetNum16 ==
    /\ op = "idle"
    /\ \E map \in ScalarMaps, name \in ScalarNames :
          /\ op' = "get_num16"
          /\ arg' = [map |-> map, name |-> name]
          /\ ret' = get_num16(PathMap_new(map), name)
    /\ UNCHANGED <<value, mandatory_params, config, contexts>>

\* one read `p.get_num(name)? as uN` of a parameter decoder
CastWidths == {8, 16, 32}
GetNumAs ==
    /\ op = "idle"
    /\ \E map \in ScalarMaps, w \in CastWidths :
          /\ op' = "get_num_as"
          /\ arg' = [map |-> map, name |-> <<"x">>, w |-> w]
          /\ ret' = Let(PathMap_new(map), LAMBDA pm : Read(pm, pm, NAs("x", w)))
    /\ UNCHANGED <<value, mandatory_params, config, contexts>>

\* the closures of p15 and p16 on an object whose first field is any of the
\* sample values and whose other fields are 1
ElectionParams == {15, 16}
DecodeElectionParam ==
    /\ op = "idle"
    /\ \E n \in ElectionParams, v \in SampleValues :
          /\ op' = "decode_object"
          /\ arg' = [map |-> (ObjectReads[n][1].f :> v)
                              @@ [f \in {ObjectReads[n][i].f : i \in DOMAIN ObjectReads[n]}
                                    |-> JPosInt(SmallMag(1))],
                     name |-> ObjectReads[n][1].f, num |-> n]
          /\ ret' = Let(PathMap(arg'.map, <<<<"root">>, PName(n)>>),
                        LAMBDA pm : decode_object(pm, n, pm))
    /\ UNCHANGED <<value, mandatory_params, config, contexts>>

NextScalar ==
    GetNum \/ GetGrams \/ GetU32 \/ GetU16 \/ GetU8 \/ GetNum16 \/ GetNumAs
    \/ DecodeElectionParam
SpecScalar == Init /\ [][NextScalar]_vars

(***************************************************************************)
(* The accessor's contexts: PathMap::new, get_obj and cont build them,     *)
(* get_vec, get_str and get_bool read from them.                           *)
(***************************************************************************)
MaxContexts == 3
\* an object with a field of every JSON shape, nested three deep
PathLeaf == (<<"s">> :> JStr(<<"a">>)) @@ (<<"b">> :> JBool(TRUE))
PathInner ==
    (<<"o">> :> JObj(PathLeaf)) @@ (<<"v">> :> JArr(<<JObj(PathLeaf), JNull>>))
    @@ (<<"s">> :> JStr(<<"b">>)) @@ (<<"b">> :> JBool(FALSE))
PathRoot ==
    (<<"o">> :> JObj(PathInner)) @@ (<<"v">> :> JArr(<<JObj(PathInner), JStr(<<"c">>)>>))
    @@ (<<"s">> :> JStr(<<"d">>)) @@ (<<"b">> :> JBool(TRUE))
    @@ (<<"n">> :> JPosInt(SmallMag(1)))
\* the names asked for: the fields above and one no object has
PathNames == {<<"o">>, <<"v">>, <<"s">>, <<"b">>, <<"n">>, <<"master">>}
\* a context with the context it was derived from (0 for PathMap::new) and the
\* name it was derived under
Context(pm, parent, name) == [pm |-> pm, parent |-> parent, name |-> name]

PathMapNew ==
    /\ Len(contexts) < MaxContexts
    /\ op' = "new"
    /\ arg' = [map |-> PathRoot]
    /\ ret' = Ok(PathMap_new(PathRoot))
    /\ contexts' = Append(contexts, Context(PathMap_new(PathRoot), 0, <<>>))
    /\ UNCHANGED <<value, mandatory_params, config>>

\* a call that derives a context from contexts[i]: the context is built only
\* when the call returns Ok
Derived(name, i, field, r) ==
    /\ ~r.ok \/ Len(contexts) < MaxContexts
    /\ op' = name
    /\ ret' = r
    /\ contexts' = IF r.ok THEN Append(contexts, Context(r.val, i, field)) ELSE contexts
    /\ UNCHANGED <<value, mandatory_params, config>>

GetObj ==
    \E i \in DOMAIN contexts, name \in PathNames :
        /\ arg' = [ctx |-> i, name |-> name]
        /\ Derived("get_obj", i, name, get_obj(contexts[i].pm, name))

\* cont on an element of an array of the context, as its callers use it
Cont ==
    \E i \in DOMAIN contexts, name \in PathNames :
        /\ get_vec(contexts[i].pm, name).ok
        /\ \E k \in DOMAIN get_vec(contexts[i].pm, name).val :
              /\ arg' = [ctx |-> i, name |-> name,
                         value |-> get_vec(contexts[i].pm, name).val[k]]
              /\ Derived("cont", i, name,
                         cont(contexts[i].pm, name, get_vec(contexts[i].pm, name).val[k]))

\* a call that reads a field of contexts[i]
ReadField(name, i, field, r) ==
    /\ op' = name
    /\ arg' = [ctx |-> i, name |-> field]
    /\ ret' = r
    /\ UNCHANGED <<value, mandatory_params, config, contexts>>

GetVec ==
    \E i \in DOMAIN contexts, name \in PathNames :
        ReadField("get_vec", i, name, get_vec(contexts[i].pm, name))
GetStr ==
    \E i \in DOMAIN contexts, name \in PathNames :
        ReadField("get_str", i, name, get_str(contexts[i].pm, name))
GetBool ==
    \E i \in DOMAIN contexts, name \in PathNames :
        ReadField("get_bool", i, name, get_bool(contexts[i].pm, name))

NextPath == PathMapNew \/ GetObj \/ Cont \/ GetVec \/ GetStr \/ GetBool
SpecPath == Init /\ [][NextPath]_vars

(***************************************************************************)
(* The configuration objects and mandatory lists given to parse_config.    *)
(***************************************************************************)
MaxMandatories == 2
MaxFields == 2

Hash == [i \in 1..64 |-> IF i % 2 = 0 THEN "A" ELSE "3"]
One == JPosInt(SmallMag(1))
MapOf(names, v) == [name \in {<<names[i]>> : i \in DOMAIN names} |-> v]

\* an object every read of the table accepts
RECURSIVE GoodOf(_)
GoodOf(reads) ==
    [name \in {reads[i].f : i \in DOMAIN reads} |->
        LET row == reads[CHOOSE i \in DOMAIN reads : reads[i].f = name]
        IN  CASE row.g \in {"num", "num_as", "grams"} -> One
              [] row.g = "bool" -> JBool(TRUE)
              [] row.g \in {"uint256", "str"} -> JStr(Hash)
              [] row.g = "obj" -> JObj(GoodOf(row.sub))]

GoodBlockId ==
    (<<"shard">> :> JStr(<<"8">>)) @@ GoodOf(<<N("wc"), N("seqno"), H("root_hash"), H("file_hash")>>)
GoodValidator(adnl, bls) ==
    (<<"public_key">> :> JStr(Hash)) @@ (<<"weight">> :> One)
    @@ (IF adnl THEN (<<"adnl_addr">> :> JStr(Hash)) ELSE <<>>)
    @@ (IF bls THEN (<<"bls_public_key">> :> JStr(Hash \o SubSeq(Hash, 1, 32))) ELSE <<>>)
GoodValidatorSet ==
    GoodOf(<<N("utime_since"), N("utime_until"), N("main")>>)
    @@ (<<"list">> :> JArr(<<JObj(GoodValidator(TRUE, FALSE)),
                             JObj(GoodValidator(FALSE, TRUE))>>))

\* a value parse_config decodes as parameter n
GoodParam(n) ==
    CASE n \in 0..5 -> JStr(Hash)
      [] n \in {6, 8, 14, 15, 16, 17, 20, 21, 22, 23, 24, 25, 28, 29, 30, 62} ->
            JObj(GoodOf(ObjectReads[n]))
      [] n = 7 -> JArr(<<JObj((<<"value">> :> JStr(<<"7">>)) @@ (<<"currency">> :> One))>>)
      [] n \in {9, 10} -> JArr(<<One, JStr(<<"7">>)>>)
      [] n = 11 -> JObj(GoodOf(<<O("normal_params", CriticalParamsReads),
                                 O("critical_params", CriticalParamsReads)>>))
      [] n = 12 -> JArr(<<JObj(GoodOf(
                      <<N("workchain_id"), N("enabled_since"), N("min_split"),
                        N("max_split"), N("flags"), B("active"), B("accept_msgs"),
                        H("zerostate_root_hash"), H("zerostate_file_hash"),
                        N("version"), B("basic"), N("vm_version"), N("vm_mode")>>))>>)
      [] n = 13 -> JObj(<<"boc">> :> JStr(SampleBoc))
      [] n = 18 -> JArr(<<JObj(GoodOf(StoragePricesReads))>>)
      [] n = 31 -> JArr(<<JStr(Hash)>>)
      [] n \in {32, 33, 34, 35, 36, 37} -> JObj(GoodValidatorSet)
      [] n = 39 -> JArr(<<JObj(GoodOf(
                      <<H("map_key"), H("adnl_addr"), S("temp_public_key"), N("seqno"),
                        N("valid_until"), S("signature_r"), S("signature_s")>>))>>)
      [] n = 40 -> JObj(<<"min_samples_count">> :> One)
      [] n = 42 -> JObj((<<"threshold">> :> One)
                        @@ (<<"payouts">> :> JArr(<<JObj(MapOf(<<"license_type",
                                                               "payout_percent">>, One))>>)))
      [] n = 44 -> JArr(<<JStr(<<"0", ":">> \o Hash)>>)
      [] n = 58 -> JArr(<<JObj(
                      GoodOf(<<N("network_id"), B("is_active"), N("currency_id"),
                               H("emergency_guard_addr"), H("pull_addr"), H("minter_addr")>>)
                      @@ (<<"zerostate">> :> JObj(GoodBlockId))
                      @@ (<<"init_block">> :> JObj(GoodBlockId))
                      @@ (<<"hardforks">> :> JArr(<<JObj(GoodBlockId)>>)))>>)
      [] n = 61 -> JObj(MapOf(<<"collator_range_len", "unreliability_max",
                                "candidates_percentile">>, One))
      [] OTHER -> JObj(<<"any">> :> One)

\* every parameter p0..p63 with a value of the kind its decoder takes
FullConfig == [name \in {PName(n) : n \in Bits} |-> GoodParam(CHOOSE n \in Bits : PName(n) = name)]
Without(map, names) == [name \in DOMAIN map \ names |-> map[name]]

\* the parameters of the small configurations: one of each decoding path, an
\* identifier no statement decodes, and the three adapters set aside
SampleIds == {0, 9, 19, 40, 42, 61}
\* a value of the JSON type the decoder of parameter n takes, with content it
\* does not take
BadParam(n) ==
    CASE n \in 0..5 -> JStr(<<"z">>)
      [] n \in {9, 10} -> JArr(<<JStr(<<"x">>)>>)
      [] n = 40 -> JObj((<<"min_samples_count">> :> JNull)
                        @@ (<<"z_param_numerator">> :> One))
      [] n = 61 -> JObj((<<"collator_range_len">> :> JStr(<<"x">>))
                        @@ (<<"candidates_percentile">> :> JNull)
                        @@ (<<"unreliability_max">> :> One))
      [] OTHER -> JObj(EmptyMap)
\* p42 with payouts whose sub-fields are missing or hold no number
SoftPayouts ==
    JObj((<<"threshold">> :> One)
         @@ (<<"payouts">> :> JArr(<<JObj(EmptyMap),
                                     JObj((<<"license_type">> :> JStr(<<"x">>))
                                          @@ (<<"payout_percent">> :> One))>>)))
\* a parameter as it should be, as a value of the wrong JSON type, and with
\* content its decoder does not take
FieldValues(n) ==
    {GoodParam(n), JNull, BadParam(n)} \cup (IF n = 42 THEN {SoftPayouts} ELSE {})
RECURSIVE ConfigsOver(_, _)
ConfigsOver(ids, k) ==
    IF k = 0 \/ ids = {} THEN {EmptyMap}
    ELSE LET n == CHOOSE m \in ids : \A o \in ids : m <= o
             rest == ConfigsOver(ids \ {n}, k)
             less == ConfigsOver(ids \ {n}, k - 1)
         IN  rest \cup {(PName(n) :> v) @@ c : v \in FieldValues(n), c \in less}
SmallConfigs == ConfigsOver(SampleIds, MaxFields)
FullConfigs == {FullConfig} \cup {Without(FullConfig, {PName(n)}) : n \in Bits}

\* validator sets of one descriptor: the node address is absent, a hash, no hash
\* or no string; the BLS key is absent, of 48, 96, 32 or 47.5 bytes, 96
\* characters that are no hex digits, or no string
HexOf(n) == [i \in 1..n |-> IF i % 2 = 0 THEN "A" ELSE "3"]
AdnlValues == {JStr(Hash), JStr(<<"z">>), JNull}
BlsValues ==
    {JStr(HexOf(96)), JStr(HexOf(192)), JStr(HexOf(64)), JStr(HexOf(95)),
     JStr([i \in 1..96 |-> "z"]), JNull}
ValidatorFields ==
    {a @@ b : a \in {EmptyMap} \cup {(<<"adnl_addr">> :> v) : v \in AdnlValues},
              b \in {EmptyMap} \cup {(<<"bls_public_key">> :> v) : v \in BlsValues}}
OneValidator(extra) ==
    JObj(GoodOf(<<N("utime_since"), N("utime_until"), N("main")>>)
         @@ (<<"list">> :> JArr(<<JObj(extra @@ GoodValidator(FALSE, FALSE))>>)))
ValidatorSetIds == {32, 33, 34, 35, 36, 37}
ValidatorConfigs ==
    {(PName(n) :> OneValidator(e)) : n \in ValidatorSetIds, e \in ValidatorFields}

\* the JSON shape the statement of parameter n reads: a hex-hash string, an
\* array or an object
ArrayIds == {7, 9, 10, 12, 18, 31, 39, 44, 58}
ShapeOf(n) == IF n \in 0..5 THEN "str" ELSE IF n \in ArrayIds THEN "arr" ELSE "obj"
\* values of another shape
WrongShapes(n) ==
    {v \in {JNull, One, JStr(<<"z">>), JArr(<<>>), JObj(EmptyMap)} :
        v.t # ShapeOf(n) \/ n \in 0..5}

RECURSIVE ListsOver(_, _)
ListsOver(ids, k) ==
    IF k = 0 THEN {<<>>}
    ELSE LET shorter == ListsOver(ids, k - 1)
         IN  shorter \cup {Append(l, n) : l \in shorter, n \in ids}
SmallLists == ListsOver(SampleIds, MaxMandatories)

(***************************************************************************)
(* The calls of the configuration parser.                                  *)
(***************************************************************************)
Called(name, map, mandatories) ==
    /\ op' = name
    /\ arg' = [map |-> map, mandatories |-> mandatories]
    /\ mandatory_params' = mask_of_mandatories(mandatories)
    /\ ret' = parse_config_with_mandatory_params(map, mandatories)
    /\ config' = IF ret'.ok THEN ret'.val ELSE <<>>
    /\ UNCHANGED <<value, contexts>>

\* the calls of parse_config_with_mandatory_params: the small configurations
\* with the small lists; every parameter in turn mandatory, there and missing;
\* every decoded parameter in turn of a wrong shape, optional and mandatory
MandatoryCalls ==
    (SmallConfigs \X SmallLists)
    \cup UNION {{FullConfig, Without(FullConfig, {PName(n)})} \X {<<n>>} : n \in Bits}
    \cup UNION {{(PName(n) :> v) : v \in WrongShapes(n)} \X {<<>>, <<n>>} :
                n \in RangeOf(StepOrder)}
ParseConfigWithMandatoryParams ==
    /\ op = "idle"
    /\ \E call \in MandatoryCalls :
          Called("parse_config_with_mandatory_params", call[1], call[2])

ParseConfig ==
    /\ op = "idle"
    /\ \E map \in SmallConfigs \cup FullConfigs \cup ValidatorConfigs :
          Called("parse_config", map, <<>>)

ForZeroState ==
    /\ op = "idle"
    /\ op' = "for_zero_state"
    /\ mandatory_params' = StateParser_for_zero_state.mandatory_params
    /\ config' = StateParser_for_zero_state.config
    /\ UNCHANGED <<arg, ret, value, contexts>>

NextConfig == ParseConfigWithMandatoryParams \/ ParseConfig \/ ForZeroState
SpecConfig == Init /\ [][NextConfig]_vars

\* parse_config_with_mandatory_params on configurations where several
\* statements can fail at once: up to two of p0, p1, p8 and p62, each as it
\* should be, of the wrong JSON type or with content its decoder refuses, and
\* mandatory lists over the four in either order; and the configuration with
\* every parameter, whole, without the two soft ones, and with a p31 whose
\* element is no string; and every decoded parameter in turn with content its
\* closure refuses, alone and among the others, its mask bit clear and set
OrderIds == {0, 1, 8, 62}
\* a value of the JSON type the statement of parameter n matches, whose content
\* its closure refuses: an object without the fields, an array whose element
\* lacks the fields or is no hash, no address or no number
UndecodableParam(n) ==
    CASE n \in {7, 12, 18, 39, 58} -> JArr(<<JObj(EmptyMap)>>)
      [] n \in {31, 44} -> JArr(<<JStr(<<"z">>)>>)
      [] OTHER -> BadParam(n)
ParseConfigInOrder ==
    /\ op = "idle"
    /\ \/ \E map \in ConfigsOver(OrderIds, MaxFields),
             mandatories \in ListsOver(OrderIds, MaxMandatories) :
             Called("parse_config_with_mandatory_params", map, mandatories)
       \/ \E map \in {FullConfig, Without(FullConfig, {PName(40), PName(61)}),
                       (PName(31) :> JArr(<<JNull>>)) @@ FullConfig},
             mandatories \in {<<>>, <<0, 1>>} :
             Called("parse_config_with_mandatory_params", map, mandatories)
       \/ \E n \in RangeOf(StepOrder),
             base \in {EmptyMap, Without(FullConfig, {PName(40), PName(61)})} :
          \E mandatories \in {<<>>, <<n>>} :
             Called("parse_config_with_mandatory_params",
                    (PName(n) :> UndecodableParam(n)) @@ base, mandatories)

NextOrder == ParseConfigInOrder
SpecOrder == Init /\ [][NextOrder]_vars

(***************************************************************************)
(* The state objects given to parse_state and parse_state_unchecked, and   *)
(* the calls.                                                              *)
(***************************************************************************)
GoodMaster(cfg) ==
    (<<"config">> :> JObj(cfg)) @@ (<<"config_addr">> :> JStr(Hash))
    @@ (<<"nx_cc_updated">> :> JBool(TRUE))
    @@ MapOf(<<"validator_list_hash_short", "catchain_seqno", "global_balance">>, One)
GoodLibrary ==
    JObj((<<"hash">> :> JStr(Hash)) @@ (<<"lib">> :> JStr(SampleBoc))
         @@ (<<"publishers">> :> JArr(<<JStr(Hash)>>)))
GoodRoot(cfg) ==
    MapOf(<<"global_id", "gen_utime", "total_balance">>, One)
    @@ (<<"master">> :> JObj(GoodMaster(cfg)))
    @@ (<<"accounts">> :> JArr(<<JObj(<<"boc">> :> JStr(SampleBoc)),
                                 JObj(<<"boc">> :> JStr(NoIdBoc))>>))
    @@ (<<"libraries">> :> JArr(<<GoodLibrary>>))
RootFields == DOMAIN GoodRoot(EmptyMap)
MasterFields == DOMAIN GoodMaster(EmptyMap)
WithMaster(root, master) == (<<"master">> :> JObj(master)) @@ root
\* the state with some of its fields left out, the master with some of its
\* fields left out, both with one field left out, and either with one field
\* that is null
StateMaps(cfg) ==
    {Without(GoodRoot(cfg), names) : names \in SUBSET RootFields}
    \cup {WithMaster(GoodRoot(cfg), Without(GoodMaster(cfg), names)) :
             names \in SUBSET (MasterFields \ {<<"config">>}) \cup {{<<"config">>}}}
    \cup {WithMaster(Without(GoodRoot(cfg), {f}), Without(GoodMaster(cfg), {g})) :
             f \in RootFields, g \in MasterFields}
    \cup {(f :> JNull) @@ GoodRoot(cfg) : f \in RootFields}
    \cup {WithMaster(GoodRoot(cfg), (f :> JNull) @@ GoodMaster(cfg)) : f \in MasterFields}

\* states with content no decoder takes: an element of p31 or a publisher of a
\* library that is no string, or no hash
MalformedStates(cfg) ==
    {GoodRoot((PName(31) :> JArr(<<v>>)) @@ cfg) : v \in {JNull, JStr(<<"z">>)}}
    \cup {(<<"libraries">> :>
              JArr(<<JObj((<<"publishers">> :> JArr(<<v>>)) @@ GoodLibrary.m)>>))
          @@ GoodRoot(cfg) : v \in {JNull, JStr(<<"z">>)}}

\* states whose accounts and libraries hold entries with and without an
\* identifier: accounts with and without an address, libraries with a hash,
\* without one, and with one that is no hash
AccountArrays ==
    {<<>>} \cup
    {[i \in DOMAIN bocs |-> JObj(<<"boc">> :> JStr(bocs[i]))] :
        bocs \in {<<NoIdBoc>>, <<NoIdBoc, SampleBoc>>, <<SampleBoc, NoIdBoc>>,
                  <<NoIdBoc, NoIdBoc>>}}
LibraryArrays ==
    {<<GoodLibrary>>, <<JObj(Without(GoodLibrary.m, {<<"hash">>})), GoodLibrary>>,
     <<GoodLibrary, JObj(Without(GoodLibrary.m, {<<"hash">>}))>>,
     <<JObj((<<"hash">> :> JStr(<<"z">>)) @@ GoodLibrary.m)>>}
\* states whose master has no config, alone or with another field left out,
\* or a config that is refused, with config_addr left out
NoConfigStates(cfg) ==
    {WithMaster(GoodRoot(cfg), Without(GoodMaster(cfg), {<<"config">>, g})) :
        g \in MasterFields}
    \cup {WithMaster(GoodRoot(cfg),
                     Without(GoodMaster((PName(9) :> BadParam(9)) @@ cfg),
                             {<<"config_addr">>}))}
EntryStates(cfg) ==
    {(<<"accounts">> :> JArr(a)) @@ (<<"libraries">> :> JArr(l)) @@ GoodRoot(cfg) :
        a \in AccountArrays, l \in LibraryArrays}

StateCalled(name, self, map, r) ==
    /\ op' = name
    /\ arg' = [map |-> map]
    /\ mandatory_params' = self.mandatory_params
    /\ ret' = r
    /\ config' = IF ret'.ok /\ ret'.val.custom # <<>> THEN ret'.val.custom[1].config
                 ELSE <<>>
    /\ UNCHANGED <<value, contexts>>

ParseState ==
    /\ op = "idle"
    /\ \E map \in StateMaps(FullConfig) \cup MalformedStates(FullConfig)
                    \cup NoConfigStates(FullConfig) :
          StateCalled("parse_state", StateParser_for_zero_state, map, parse_state(map))

ParseStateUnchecked ==
    /\ op = "idle"
    /\ \E map \in StateMaps(PName(0) :> JStr(Hash))
                    \cup MalformedStates(PName(0) :> JStr(Hash))
                    \cup EntryStates(PName(0) :> JStr(Hash))
                    \cup NoConfigStates(PName(0) :> JStr(Hash)) :
          StateCalled("parse_state_unchecked", StateParser_new, map,
                      parse_state_unchecked(map))

NextState == ParseState \/ ParseStateUnchecked
SpecState == Init /\ [][NextState]_vars

(***************************************************************************)
(* The relay receipts given to parse_remp_status, and the call.            *)
(***************************************************************************)
\* the kinds of the match, and kinds it does not have
KnownKinds ==
    {"IncludedIntoBlock", "AcceptedByFullnode", "Finalized", "AcceptedByQueue",
     "IncludedIntoAcceptedBlock", "Duplicate", "IgnoredByCollator",
     "IgnoredByFullNode", "IgnoredByMasterchain", "IgnoredByQueue",
     "IgnoredByShardchain", "PutIntoQueue", "RejectedByCollator",
     "RejectedByFullnode", "RejectedByMasterchain", "RejectedByQueue",
     "RejectedByShardchain", "SentToValidators", "Timeout"}
OtherKinds ==
    {"", "timeout", "Accepted", "AcceptedByFullNode", "IgnoredByFullnode",
     "RejectedByFullNode", "New"}
Two == JPosInt(SmallMag(2))
\* "TWFu" is the base64 of the bytes 77, 97, 110
SampleSignature == <<"T", "W", "F", "u">>
CommonFields ==
    (<<"source_id">> :> JStr(Hash)) @@ (<<"signature">> :> JStr(SampleSignature))
    @@ (<<"timestamp">> :> One) @@ (<<"message_id">> :> JStr(HexOf(64)))
BlockFields ==
    (<<"wc">> :> One) @@ (<<"shard">> :> JStr(<<"8">>)) @@ (<<"block_seqno">> :> One)
    @@ (<<"block_id">> :> JStr(Hash)) @@ (<<"block_file_hash">> :> JStr(Hash))
McFields ==
    (<<"mc_block_seqno">> :> Two) @@ (<<"mc_block_id">> :> JStr(Hash))
    @@ (<<"mc_block_file_hash">> :> JStr(Hash))
VariantFields ==
    (<<"error">> :> JStr(<<"e">>)) @@ (<<"sent_to">> :> One)
    @@ (<<"total_validators">> :> Two)
FullReceipt(kind) ==
    (<<"kind">> :> JStr(<<kind>>)) @@ CommonFields @@ BlockFields @@ McFields
    @@ VariantFields
\* the receipt of a kind: whole, without some of the master-chain block fields,
\* without any block field, without one field, and with one field that is null
\* or a string no decoder takes
ReceiptMaps(kind) ==
    {Without(FullReceipt(kind), names) :
        names \in SUBSET (DOMAIN McFields) \cup {DOMAIN BlockFields \cup DOMAIN McFields}
                  \cup {{f} : f \in DOMAIN FullReceipt(kind)}}
    \cup {(f :> v) @@ FullReceipt(kind) :
             f \in DOMAIN FullReceipt(kind), v \in {JNull, JStr(<<"!">>)}}

ParseRempStatus ==
    /\ op = "idle"
    /\ \E kind \in KnownKinds \cup OtherKinds :
          \E map \in ReceiptMaps(kind) :
             /\ op' = "parse_remp_status"
             /\ arg' = [map |-> map]
             /\ ret' = parse_remp_status(map)
             /\ UNCHANGED <<value, mandatory_params, config, contexts>>

NextRemp == ParseRempStatus
SpecRemp == Init /\ [][NextRemp]_vars

(***************************************************************************)
(* The block proofs given to parse_block_proof, and the call.              *)
(***************************************************************************)
SigA ==
    (<<"node_id">> :> JStr(Hash)) @@ (<<"r">> :> JStr(HexOf(64)))
    @@ (<<"s">> :> JStr([i \in 1..64 |-> "1"]))
SigB ==
    (<<"node_id">> :> JStr([i \in 1..64 |-> "B"])) @@ (<<"r">> :> JStr([i \in 1..64 |-> "2"]))
    @@ (<<"s">> :> JStr(HexOf(64)))
\* the arrays of signatures: none, one, two in both orders, and arrays with an
\* element that is no object or lacks a field or has a malformed one
SignatureArrays ==
    {<<>>, <<JObj(SigA)>>, <<JObj(SigA), JObj(SigB)>>, <<JObj(SigB), JObj(SigA)>>,
     <<JObj(SigA), JNull>>, <<JObj((<<"r">> :> JStr(<<"z">>)) @@ SigA)>>}
    \cup {<<JObj(SigB), JObj(Without(SigA, {f}))>> : f \in DOMAIN SigA}
\* the field signatures: an array, or a value that is no array
SignaturesValues == {JArr(a) : a \in SignatureArrays} \cup {JNull, JStr(<<"x">>)}
BundleFields ==
    (<<"sig_weight">> :> Two) @@ (<<"validator_list_hash_short">> :> One)
    @@ (<<"catchain_seqno">> :> JPosInt(SmallMag(3)))
\* sig_weight, validator_list_hash_short and catchain_seqno: all, any of them
\* left out, one of them null
BundleMaps ==
    {Without(BundleFields, names) : names \in SUBSET (DOMAIN BundleFields)}
    \cup {(f :> JNull) @@ BundleFields : f \in DOMAIN BundleFields}
\* the field proof: a bag of cells, bytes that are none, a string that is no
\* base64, a number, or no field
ProofMaps ==
    {EmptyMap} \cup
    {(<<"proof">> :> v) : v \in {JStr(SampleBoc), JStr(SampleSignature), JStr(<<"*">>), One}}
ProofInputs ==
    {p @@ b @@ g : p \in ProofMaps, b \in BundleMaps,
                   g \in {EmptyMap} \cup {(<<"signatures">> :> v) : v \in SignaturesValues}}

ParseBlockProof ==
    /\ op = "idle"
    /\ \E map \in ProofInputs, block_file_hash \in {Hash, ZeroHash} :
          /\ op' = "parse_block_proof"
          /\ arg' = [map |-> map, block_file_hash |-> block_file_hash]
          /\ ret' = parse_block_proof(map, block_file_hash)
          /\ UNCHANGED <<value, mandatory_params, config, contexts>>

NextProof == ParseBlockProof
SpecProof == Init /\ [][NextProof]_vars

(***************************************************************************)
(* The configuration parser's claims.                                      *)
(***************************************************************************)
ParseOps == {"parse_config_with_mandatory_params", "parse_config"}
Absent(n) == PName(n) \notin DOMAIN arg.map
FailsOn(n) == ~ret.ok /\ ret.err.name = PName(n)
\* the parameters whose statement consults the mask
CheckedIds == RangeOf(StepOrder) \ {40, 61}

\* C1 as the specification states it: for every n in 0..63 whose mask bit is
\* set, a configuration without p<n> fails with the "parameter not found"
\* error naming p<n>.
C1_EveryMandatoryMissingFails ==
    op \in ParseOps =>
        \A n \in Bits :
            is_need(mandatory_params, n) /\ Absent(n) =>
                FailsOn(n) /\ ret.err.kind = "ParameterNotFound"

\* C1, amended: for every n a mask-consulting statement decodes, a set bit n
\* and an absent p<n> make the parse fail; when every other parameter is there
\* and well formed the error names p<n>: "parameter p<n> not found", and for
\* p9 and p10 the missing-field error of get_vec.
C1_CheckedMandatoryMissingFails ==
    op \in ParseOps =>
        \A n \in CheckedIds :
            is_need(mandatory_params, n) /\ Absent(n) =>
                /\ ~ret.ok
                /\ arg.map = Without(FullConfig, {PName(n)}) =>
                      /\ ret.err.name = PName(n)
                      /\ ret.err.kind = IF n \in {9, 10} THEN "MissingField"
                                        ELSE "ParameterNotFound"
C1_Witness ==
    /\ op = "parse_config_with_mandatory_params"
    /\ arg.mandatories = <<17>>
    /\ arg.map = Without(FullConfig, {PName(17)})
    /\ FailsOn(17)

\* C2 as the specification states it: the mask of for_zero_state has is_need(n)
\* true for exactly the documented identifiers 0,1,2,7,...,12,14,...,34.
C2_ZeroStateMaskIsDocumentedSet ==
    op = "for_zero_state" =>
        \A n \in Bits : is_need(mandatory_params, n) <=> n \in ZeroStateMandatories
\* what the literal of for_zero_state holds: the documented set without 12
C2_ZeroStateMaskLacks12 ==
    op = "for_zero_state" =>
        \A n \in Bits :
            is_need(mandatory_params, n) <=> n \in ZeroStateMandatories \ {12}
C2_Witness == op = "for_zero_state" /\ ~is_need(mandatory_params, 12)

\* C3 as the specification states it: for every n whose mask bit is clear, a
\* configuration without p<n> does not fail on n and the result holds no
\* parameter n.
C3_OptionalMissingOmitted ==
    op \in ParseOps =>
        \A n \in Bits :
            ~is_need(mandatory_params, n) /\ Absent(n) =>
                ~FailsOn(n) /\ (ret.ok => n \notin DOMAIN config)

\* C3, amended: for every n but 40 whose mask bit is clear, a configuration
\* without p<n> does not fail on n and the result holds no parameter n; every
\* result holds parameter 40, with the defaults when p40 is absent.
C3_OptionalMissingOmittedBut40 ==
    op \in ParseOps =>
        /\ \A n \in Bits \ {40} :
              ~is_need(mandatory_params, n) /\ Absent(n) =>
                  ~FailsOn(n) /\ (ret.ok => n \notin DOMAIN config)
        /\ ret.ok => 40 \in DOMAIN config
        /\ ret.ok /\ Absent(40) =>
              \A f \in DOMAIN config[40].body : config[40].body[f] = FieldDefault
C3_Witness ==
    /\ op = "parse_config_with_mandatory_params"
    /\ arg.mandatories = <<9>>
    /\ DOMAIN arg.map = {PName(9)}
    /\ ret.ok
    /\ DOMAIN config = {9, 40}

\* the call of C4: only p0, a valid hash, and the mandatory list [0]
C4_Call ==
    /\ op = "parse_config_with_mandatory_params"
    /\ arg.map = (PName(0) :> JStr(Hash))
    /\ arg.mandatories = <<0>>
\* C4 as the specification states it: the call succeeds and the result holds
\* exactly one parameter, p0.
C4_OnlyP0 == C4_Call => ret.ok /\ DOMAIN config = {0}
\* C4, amended: the call succeeds and the result holds exactly two parameters,
\* p0 with the hash given and p40 with the defaults.
C4_P0AndDefaultP40 ==
    C4_Call =>
        /\ ret.ok
        /\ DOMAIN config = {0, 40}
        /\ config[0].body = Hash
        /\ \A f \in DOMAIN config[40].body : config[40].body[f] = FieldDefault
C4_Witness == C4_Call /\ ret.ok

\* C8: the parser that parse_config_with_mandatory_params builds from a list
\* of identifiers in 0..63 has is_need(n) exactly for the n of the list; with
\* the empty list, and so for parse_config, the mask is 0.
C8_MaskIsTheList ==
    op \in ParseOps =>
        /\ \A n \in Bits :
              is_need(mandatory_params, n) <=> n \in RangeOf(arg.mandatories)
        /\ arg.mandatories = <<>> => mandatory_params = ZeroMask
        /\ op = "parse_config" => mandatory_params = ZeroMask
C8_Witness ==
    /\ op = "parse_config_with_mandatory_params"
    /\ arg.mandatories = <<61, 9>>
    /\ is_need(mandatory_params, 9) /\ is_need(mandatory_params, 61)
    /\ ~is_need(mandatory_params, 10)

\* C10 as the specification states it: for p40, p42 and p61 the mask is not
\* consulted, a configuration without the field never fails on it.
C10_SoftNeverFail ==
    op \in ParseOps =>
        \A n \in {40, 42, 61} : Absent(n) => ~FailsOn(n)

\* C10, amended: for p40 and p61 the mask is not consulted, a configuration
\* without the field never fails on it; p42 follows the mask: with bit 42 set
\* a configuration without p42 fails, on p42 when it is the one parameter both
\* mandatory and absent and the others are well formed.
C10_SoftNeverFailBut42 ==
    op \in ParseOps =>
        /\ \A n \in {40, 61} : Absent(n) => ~FailsOn(n)
        /\ is_need(mandatory_params, 42) /\ Absent(42) =>
              /\ ~ret.ok
              /\ arg.map \in {EmptyMap, Without(FullConfig, {PName(42)})}
                 /\ arg.mandatories = <<42>> => FailsOn(42)
C10_Witness ==
    /\ op = "parse_config_with_mandatory_params"
    /\ arg.mandatories = <<61, 40>>
    /\ Absent(61) /\ Absent(40)
    /\ ret.ok

\* the field p<n> of the configuration given is there, and is an object
Present(n) == PName(n) \in DOMAIN arg.map
IsObject(n) == Present(n) /\ arg.map[PName(n)].t = "obj"
\* the call failed on parameter n or on a field below it
FailsIn(n) ==
    /\ ~ret.ok
    /\ \/ ret.err.name = PName(n)
       \/ \E i \in DOMAIN ret.err.path : ret.err.path[i] = PName(n)
\* sub-field f of the object m is missing or holds no integer
NoInteger(m, f) == ~get_num(PathMap(m, <<>>), <<f>>).ok
\* the payouts of the p42 given
Payouts == arg.map[PName(42)].m[<<"payouts">>].a
\* p42 has a threshold get_grams reads and payouts that are a vector of objects
SoundP42 ==
    /\ IsObject(42)
    /\ get_grams(PathMap(arg.map[PName(42)].m, <<>>), <<"threshold">>).ok
    /\ <<"payouts">> \in DOMAIN arg.map[PName(42)].m
    /\ arg.map[PName(42)].m[<<"payouts">>].t = "arr"
    /\ \A i \in DOMAIN Payouts : Payouts[i].t = "obj"

\* C11 as the specification states it: for each of p40, p42 and p61, when the
\* parameter is an object every sub-field is optional: the parse does not fail
\* on it and the parameter is set in the result.
C11_SoftSubFields ==
    op \in ParseOps =>
        \A n \in {40, 42, 61} :
            IsObject(n) => ~FailsIn(n) /\ (ret.ok => n \in DOMAIN config)

\* C11, amended: for p40 and p61, when the parameter is an object the parse
\* does not fail on it, the parameter is set, and a sub-field that is missing or
\* holds no integer keeps its default.  For p42 the threshold and the payouts
\* vector are required: without a threshold the parse fails; with both, the
\* parameter is set and a license_type or payout_percent that is missing or
\* holds no integer is 0.
C11_SoftSubFieldsBut42 ==
    op \in ParseOps =>
        /\ \A n \in {40, 61} :
              IsObject(n) =>
                  /\ ~FailsIn(n)
                  /\ ret.ok =>
                        /\ n \in DOMAIN config
                        /\ \A f \in DOMAIN config[n].body :
                              NoInteger(arg.map[PName(n)].m, f) =>
                                  config[n].body[f] = FieldDefault
        /\ SoundP42 =>
              /\ ~FailsIn(42)
              /\ ret.ok =>
                    /\ 42 \in DOMAIN config
                    /\ Len(config[42].body[2]) = Len(Payouts)
                    /\ \A i \in DOMAIN Payouts :
                          /\ NoInteger(Payouts[i].m, "license_type") =>
                                config[42].body[2][i][1] = ZeroMag
                          /\ NoInteger(Payouts[i].m, "payout_percent") =>
                                config[42].body[2][i][2] = ZeroMag
        /\ IsObject(42) /\ arg.map[PName(42)].m = EmptyMap => ~ret.ok
C11_Witness ==
    /\ op \in ParseOps
    /\ DOMAIN arg.map = {PName(61)}
    /\ arg.map[PName(61)] = BadParam(61)
    /\ ret.ok
    /\ config[61].body["collator_range_len"] = FieldDefault
    /\ config[61].body["candidates_percentile"] = FieldDefault
    /\ config[61].body["unreliability_max"] = SmallMag(1)

\* the call was given validator set n alone, with one descriptor
OneDescriptor(n) ==
    /\ op \in ParseOps
    /\ arg.map \in {(PName(n) :> OneValidator(e)) : e \in ValidatorFields}
\* the descriptor given, and the one decoded: ValidatorDescr::with_params of
\* parse_validator_set and of the closure of p34
TheValidator(n) == arg.map[PName(n)].m[<<"list">>].a[1].m
DescrOf(n) == IF n = 34 THEN config[34].body[1][1] ELSE config[n].body[4][1]
DescrBls(n) == IF n = 34 THEN DescrOf(n)[1] ELSE DescrOf(n)[4]
DescrAdnl(n) == IF n = 34 THEN DescrOf(n)[4] ELSE DescrOf(n)[3]
HasString(n, f) == <<f>> \in DOMAIN TheValidator(n) /\ TheValidator(n)[<<f>>].t = "str"
BlsString(n) == TheValidator(n)[<<"bls_public_key">>].s

C18_AdnlCarried ==
    \A n \in ValidatorSetIds :
        OneDescriptor(n) /\ ret.ok =>
            /\ HasString(n, "adnl_addr") /\ UInt256_from_str(TheValidator(n)[<<"adnl_addr">>].s).ok =>
                  DescrAdnl(n) = <<TheValidator(n)[<<"adnl_addr">>].s>>
            /\ <<"adnl_addr">> \notin DOMAIN TheValidator(n) => DescrAdnl(n) = <<>>
\* what the code does: the shared decoder carries the address, the closure of
\* p34 gives None whatever the element holds
C18_AdnlCarriedBut34 ==
    \A n \in ValidatorSetIds :
        OneDescriptor(n) /\ ret.ok =>
            DescrAdnl(n) =
                IF n # 34 /\ HasString(n, "adnl_addr")
                   /\ UInt256_from_str(TheValidator(n)[<<"adnl_addr">>].s).ok
                THEN <<TheValidator(n)[<<"adnl_addr">>].s>> ELSE <<>>
C18_Witness ==
    /\ OneDescriptor(34)
    /\ HasString(34, "adnl_addr")
    /\ TheValidator(34)[<<"adnl_addr">>].s = Hash
    /\ ret.ok
    /\ DescrAdnl(34) = <<>>

\* the field p<n> given has not the shape its statement reads
WrongShape(n) ==
    LET v == arg.map[PName(n)]
    IN  IF n \in 0..5 THEN ~(v.t = "str" /\ UInt256_from_str(v.s).ok)
        ELSE v.t # ShapeOf(n)

\* C19 as the specification states it: a field p<N> that is present but has not
\* the JSON shape its decoder expects makes parse_config fail, for every decoded
\* N, whether or not bit N of the mask is set.
C19_WrongShapeFails ==
    op \in ParseOps =>
        \A n \in RangeOf(StepOrder) : Present(n) /\ WrongShape(n) => ~ret.ok
\* what the code does: a field of the wrong shape is read as an absent one; it
\* fails the parse when bit N is set and N is not 40 or 61, and is left out of
\* the result (40: set with the defaults) when the bit is clear
C19_WrongShapeIsAbsence ==
    op \in ParseOps =>
        \A n \in RangeOf(StepOrder) :
            Present(n) /\ WrongShape(n) =>
                /\ is_need(mandatory_params, n) /\ n \notin {40, 61} => ~ret.ok
                /\ DOMAIN arg.map = {PName(n)}
                   /\ (arg.mandatories = <<>>
                       \/ (arg.mandatories = <<n>> /\ n \in {40, 61})) =>
                      /\ ret.ok
                      /\ DOMAIN config = {40}
                      /\ \A f \in DOMAIN config[40].body :
                            config[40].body[f] = FieldDefault
C19_Witness ==
    /\ op = "parse_config_with_mandatory_params"
    /\ arg.map = (PName(0) :> JStr(<<"z">>))
    /\ arg.mandatories = <<>>
    /\ ret.ok
    /\ 0 \notin DOMAIN config

\* the parser of the call as parse_config finds it, the configuration given,
\* the results of its statements, and the parameters whose statement fails
TheParser == [mandatory_params |-> mandatory_params, config |-> <<>>]
TheConfig == PathMap_new(arg.map)
Failing(rs) == {StepOrder[p[1]] : p \in {q \in rs : ~q[2].ok}}
Lowest(ids) == CHOOSE n \in ids : \A m \in ids : n <= m
ResultOf(rs, n) == (CHOOSE p \in rs : StepOrder[p[1]] = n)[2]

\* C23: parse_config runs the statements of the parameters in strictly
\* increasing order of identifier and stops at the first that fails: the call
\* fails exactly when some statement does, the error is the one of the failing
\* parameter of lowest identifier, and no statement of a higher identifier
\* runs.
C23_LowestFailureWins ==
    op \in ParseOps =>
        Let(Statements(TheParser, TheConfig),
            LAMBDA rs :
                /\ \A i, j \in DOMAIN executed_of(rs) :
                      i < j => executed_of(rs)[i] < executed_of(rs)[j]
                /\ ret.ok <=> Failing(rs) = {}
                /\ Failing(rs) # {} =>
                      /\ ret = ResultOf(rs, Lowest(Failing(rs)))
                      /\ \A n \in RangeOf(executed_of(rs)) : n <= Lowest(Failing(rs)))
\* nothing given and the list [1, 0]: the statements of p0 and p1 both fail,
\* the error is the one of p0 and the statement of p1 does not run
C23_Witness ==
    /\ op = "parse_config_with_mandatory_params"
    /\ arg.map = EmptyMap
    /\ arg.mandatories = <<1, 0>>
    /\ Failing(Statements(TheParser, TheConfig)) = {0, 1}
    /\ FailsOn(0)
    /\ executed(TheParser, TheConfig) = <<0>>

\* C25: during one run of parse_config no identifier is given to set_config
\* more than once: the identifiers of the calls, in their order, are pairwise
\* distinct (they are strictly increasing), each is the identifier of the
\* statement that made the call, and on success they are the identifiers the
\* Configuration Set returned holds.
C25_NoIdentifierTwice ==
    op \in ParseOps =>
        Let(writes(TheParser, TheConfig),
            LAMBDA w :
                /\ \A i, j \in DOMAIN w : i < j => w[i] < w[j]
                /\ RangeOf(w) \subseteq RangeOf(StepOrder)
                /\ ret.ok => DOMAIN ret.val = RangeOf(w))
\* the configuration with every parameter: every statement writes, once
C25_Witness ==
    /\ op = "parse_config_with_mandatory_params"
    /\ arg.map = FullConfig
    /\ ret.ok
    /\ writes(TheParser, TheConfig) = StepOrder

SoftParams == {40, 61}
WithBit(self, n, b) ==
    [self EXCEPT !.mandatory_params = [i \in Bits |-> IF i = n THEN b ELSE @[i]]]
\* the field p<n> is there, the statement of n matches it and its closure
\* fails on it
ContentRefused(n) ==
    /\ PName(n) \in DOMAIN arg.map
    /\ parameter_field(TheConfig, n).ok
    /\ ~parameter_content(TheConfig, n, parameter_field(TheConfig, n).val).ok
\* C26: a field p<N> the statement of N matches (an object, an array, for
\* p0..p5 a hash string) whose content the closure fails to decode makes
\* parse_config fail, for every decoded N but the soft p40 and p61, whether
\* bit N of the mask is clear or set: the statement gives the closure's error
\* under either bit, so the mask plays no part once the field is matched.
C26_ContentFailureFails ==
    op \in ParseOps =>
        \A n \in RangeOf(StepOrder) \ SoftParams :
            ContentRefused(n) =>
                /\ ~ret.ok
                /\ \A b \in {0, 1} :
                      parse_step(WithBit(TheParser, n, b), TheConfig, n)
                        = parameter_content(TheConfig, n, parameter_field(TheConfig, n).val)
\* p8 as an object without its fields, nothing mandatory: the call fails with
\* the error of the closure's first read; and every decoded parameter that is
\* an object or an array has such a refused content among the inputs
C26_Witness ==
    /\ op = "parse_config_with_mandatory_params"
    /\ arg.map = (PName(8) :> UndecodableParam(8))
    /\ arg.mandatories = <<>>
    /\ ContentRefused(8)
    /\ ~ret.ok
    /\ ret.err.kind = "NotInteger"
    /\ ret.err.path = <<<<"root">>, PName(8)>>
    /\ \A n \in RangeOf(StepOrder) \ (SoftParams \cup (0..5)) :
          Let(PathMap_new((PName(n) :> UndecodableParam(n))),
              LAMBDA cfg : /\ parameter_field(cfg, n).ok
                           /\ ~parameter_content(cfg, n, parameter_field(cfg, n).val).ok)

(***************************************************************************)
(* The state parser's claims.                                              *)
(***************************************************************************)
StateOps == {"parse_state", "parse_state_unchecked"}
\* the gated fields of the root and of master, with the field of the state or
\* of the McStateExtra each one sets
RootGated ==
    (<<"global_id">> :> "global_id") @@ (<<"gen_utime">> :> "gen_time")
    @@ (<<"total_balance">> :> "total_balance")
MasterGated ==
    {<<"config_addr">>, <<"validator_list_hash_short">>, <<"catchain_seqno">>,
     <<"nx_cc_updated">>, <<"global_balance">>}
\* field f is not in the object m, under its name or its _dec name
Missing(m, f) == f \notin DOMAIN m /\ DecName(f) \notin DOMAIN m
MasterGiven ==
    <<"master">> \in DOMAIN arg.map /\ arg.map[<<"master">>].t = "obj"
TheMaster == arg.map[<<"master">>].m
TheExtra == ret.val.custom[1]
StopsOn(f) == ~ret.ok /\ ret.err.name = f

\* C12: global_id, gen_utime, total_balance and, when master is present,
\* config_addr, validator_list_hash_short, catchain_seqno, nx_cc_updated and
\* global_balance are gated alike: a missing field fails the parse when the
\* mask is nonzero; when the mask is zero the parse goes on and the field keeps
\* its default.
C12_UniformGate ==
    op \in StateOps =>
        /\ \A f \in DOMAIN RootGated :
              Missing(arg.map, f) =>
                  IF mandatory_params # ZeroMask THEN ~ret.ok
                  ELSE /\ ~StopsOn(f)
                       /\ ret.ok => ret.val[RootGated[f]] = StateDefault[RootGated[f]]
        /\ MasterGiven =>
              \A f \in MasterGated :
                  Missing(TheMaster, f) =>
                      IF mandatory_params # ZeroMask THEN ~ret.ok
                      ELSE /\ ~StopsOn(f)
                           /\ ret.ok => TheExtra[f[1]] = ExtraDefault[f[1]]
C12_Witness ==
    /\ op = "parse_state_unchecked"
    /\ Missing(arg.map, <<"gen_utime">>)
    /\ MasterGiven /\ Missing(TheMaster, <<"catchain_seqno">>)
    /\ ret.ok
    /\ ret.val.gen_time = ZeroMag /\ ret.val.global_id = SmallMag(1)
    /\ TheExtra.catchain_seqno = ZeroMag /\ TheExtra.config_addr = Hash

\* the state given is whole but for its accounts and libraries, which are
\* arrays of objects with a decodable boc, and with a decodable lib and
\* publishers
EntriesGiven ==
    /\ op \in StateOps
    /\ \A f \in RootFields : f \in DOMAIN arg.map
    /\ \A f \in RootFields \ {<<"accounts">>, <<"libraries">>} :
          arg.map[f] = GoodRoot(PName(0) :> JStr(Hash))[f]
    /\ arg.map[<<"accounts">>].t = "arr" /\ arg.map[<<"libraries">>].t = "arr"
    /\ \A i \in DOMAIN arg.map[<<"libraries">>].a :
          Without(arg.map[<<"libraries">>].a[i].m, {<<"hash">>})
              = Without(GoodLibrary.m, {<<"hash">>})
TheAccounts == arg.map[<<"accounts">>].a
TheLibraries == arg.map[<<"libraries">>].a
\* the entries whose identifier can be derived: the accounts with an address,
\* the libraries with a hash
AccountHasId(e) == e.m[<<"boc">>] = JStr(SampleBoc)
LibraryHasId(e) == <<"hash">> \in DOMAIN e.m /\ get_uint256(PathMap_new(e.m), <<"hash">>).ok
AccountIds == {<<181, 238, 156>> : i \in {j \in DOMAIN TheAccounts : AccountHasId(TheAccounts[j])}}
LibraryIds ==
    {TheLibraries[i].m[<<"hash">>].s : i \in {j \in DOMAIN TheLibraries : LibraryHasId(TheLibraries[j])}}

ConfigGiven ==
    <<"config">> \in DOMAIN TheMaster /\ TheMaster[<<"config">>].t = "obj"
ConfigResult ==
    StateParser_parse_config(
        [mandatory_params |-> mandatory_params, config |-> <<>>],
        PathMap(TheMaster[<<"config">>].m, <<<<"root">>, <<"master">>, <<"config">>>>))
\* no field read before master stops the parse
RootPasses ==
    \/ mandatory_params = ZeroMask
    \/ \A f \in DOMAIN RootGated : f \in DOMAIN arg.map /\ arg.map[f] = One

\* C28: when master is given, its config is required whatever the mask: a
\* master without a config object fails the parse with the error of config,
\* also under parse_state_unchecked; config is decoded before the five gated
\* fields of master are read, so its error is the one returned when one of
\* them would fail as well; and a parse that succeeds with master given marks
\* the state as following a key block.
C28_ConfigRequiredFirst ==
    op \in StateOps /\ MasterGiven =>
        /\ ~ConfigGiven =>
              /\ ~ret.ok
              /\ RootPasses =>
                    /\ ret.err.path = <<<<"root">>, <<"master">>>>
                    /\ ret.err.name = <<"config">>
        /\ (ConfigGiven /\ RootPasses /\ \E f \in MasterGated : Missing(TheMaster, f)) =>
              Let(ConfigResult, LAMBDA r : ~r.ok => ret = r)
        /\ ret.ok => Len(ret.val.custom) = 1 /\ TheExtra.after_key_block = TRUE
C28_Witness ==
    /\ op = "parse_state_unchecked"
    /\ MasterGiven
    /\ ~ConfigGiven /\ Missing(TheMaster, <<"config_addr">>)
    /\ ~ret.ok
    /\ ret.err = [kind |-> "MissingField", path |-> <<<<"root">>, <<"master">>>>,
                  name |-> <<"config">>]

(***************************************************************************)
(* The relay receipt's claims.                                             *)
(***************************************************************************)
\* the receipt given has the common fields, well formed, and a kind
Reads(f) == f \in DOMAIN arg.map /\ arg.map[f] = FullReceipt("")[f]
CommonValid ==
    /\ op = "parse_remp_status"
    /\ \A f \in DOMAIN CommonFields : Reads(f)
    /\ <<"kind">> \in DOMAIN arg.map /\ arg.map[<<"kind">>].t = "str"
TheKind == arg.map[<<"kind">>].s[1]
TargetBlockValid == \A f \in DOMAIN BlockFields : Reads(f)
MasterBlockValid == \A f \in DOMAIN McFields : Reads(f)
TheStatus == ret.val.receipt.status
\* the documented list: the status variant of each kind, and its level
DocumentedVariant ==
    [k \in KnownKinds |->
        CASE k \in {"IncludedIntoBlock", "AcceptedByFullnode", "Finalized",
                    "AcceptedByQueue", "IncludedIntoAcceptedBlock"} ->
                "TonNode_RempAccepted"
          [] k \in {"IgnoredByCollator", "IgnoredByFullNode", "IgnoredByMasterchain",
                    "IgnoredByQueue", "IgnoredByShardchain"} -> "TonNode_RempIgnored"
          [] k \in {"RejectedByCollator", "RejectedByFullnode", "RejectedByMasterchain",
                    "RejectedByQueue", "RejectedByShardchain"} -> "TonNode_RempRejected"
          [] k = "Duplicate" -> "TonNode_RempDuplicate"
          [] k = "PutIntoQueue" -> "TonNode_RempNew"
          [] k = "SentToValidators" -> "TonNode_RempSentToValidators"
          [] k = "Timeout" -> "TonNode_RempTimeout"]
DocumentedLevel ==
    [k \in KnownKinds |->
        CASE k \in {"IncludedIntoBlock", "IgnoredByCollator", "RejectedByCollator"} ->
                <<"TonNode_RempCollator">>
          [] k \in {"AcceptedByFullnode", "IgnoredByFullNode", "RejectedByFullnode"} ->
                <<"TonNode_RempFullnode">>
          [] k \in {"Finalized", "IgnoredByMasterchain", "RejectedByMasterchain"} ->
                <<"TonNode_RempMasterchain">>
          [] k \in {"AcceptedByQueue", "IgnoredByQueue", "RejectedByQueue"} ->
                <<"TonNode_RempQueue">>
          [] k \in {"IncludedIntoAcceptedBlock", "IgnoredByShardchain",
                    "RejectedByShardchain"} ->
                <<"TonNode_RempShardchain">>
          [] OTHER -> <<>>]
\* the receipt given has the fields the variant of its kind requires
VariantValid ==
    CASE DocumentedVariant[TheKind] \in {"TonNode_RempAccepted", "TonNode_RempIgnored",
                                         "TonNode_RempDuplicate"} -> TargetBlockValid
      [] DocumentedVariant[TheKind] = "TonNode_RempRejected" ->
            TargetBlockValid /\ Reads(<<"error">>)
      [] DocumentedVariant[TheKind] = "TonNode_RempSentToValidators" ->
            Reads(<<"sent_to">>) /\ Reads(<<"total_validators">>)
      [] OTHER -> TRUE

\* C13: given valid common fields and the fields its variant requires,
\* parse_remp_status maps every kind of the documented list to its one status
\* variant and pipeline level; every other kind fails with the unknown-status
\* error.
C13_KindTable ==
    CommonValid =>
        IF TheKind \in KnownKinds
        THEN VariantValid =>
                /\ ret.ok
                /\ TheStatus.status = DocumentedVariant[TheKind]
                /\ IF DocumentedLevel[TheKind] = <<>> THEN "level" \notin DOMAIN TheStatus
                   ELSE TheStatus.level = DocumentedLevel[TheKind][1]
        ELSE ~ret.ok /\ ret.err.kind = "UnknownStatus"
C13_Witness ==
    /\ CommonValid
    /\ TheKind = "IgnoredByFullNode"
    /\ ret.ok
    /\ TheStatus.status = "TonNode_RempIgnored"
    /\ TheStatus.level = "TonNode_RempFullnode"

\* C14: a receipt with valid common fields and kind Timeout (likewise
\* PutIntoQueue) is decoded into the Timeout (New) status whatever block fields
\* it has or lacks, and the signature returned is the bytes decoded from the
\* signature field.
C14_NoBlockNeeded ==
    CommonValid /\ TheKind \in {"Timeout", "PutIntoQueue"} =>
        /\ ret.ok
        /\ TheStatus = [status |-> IF TheKind = "Timeout" THEN "TonNode_RempTimeout"
                                   ELSE "TonNode_RempNew"]
        /\ ret.val.signature = <<77, 97, 110>>
C14_Witness ==
    /\ CommonValid
    /\ TheKind = "Timeout"
    /\ DOMAIN arg.map \cap (DOMAIN BlockFields \cup DOMAIN McFields) = {}
    /\ ret.ok
    /\ TheStatus.status = "TonNode_RempTimeout"
    /\ ret.val.signature = <<77, 97, 110>>

\* C15: for the five accepted kinds the master-chain block identifier never
\* fails the call: master_id is the identifier decoded from mc_block_seqno,
\* mc_block_id and mc_block_file_hash when the three are present and valid, and
\* the default identifier otherwise; the target block identifier stays
\* required.
C15_MasterIdOptional ==
    CommonValid /\ TheKind \in KnownKinds
    /\ DocumentedVariant[TheKind] = "TonNode_RempAccepted" =>
        /\ ret.ok <=> parse_block_id_ext(PathMap_new(arg.map), FALSE).ok
        /\ TargetBlockValid => ret.ok
        /\ ret.ok =>
              TheStatus.master_id =
                  IF MasterBlockValid
                  THEN BlockIdExt(ShardIdent(MasterchainId, ShardFull), SmallMag(2),
                                  Hash, Hash)
                  ELSE BlockIdExtDefault
        /\ ret.ok /\ TargetBlockValid =>
              TheStatus.block_id =
                  BlockIdExt(ShardIdent(SmallMag(1), Pow2(3)), SmallMag(1), Hash, Hash)
C15_Witness ==
    /\ CommonValid
    /\ TheKind = "Finalized"
    /\ TargetBlockValid
    /\ <<"mc_block_id">> \notin DOMAIN arg.map
    /\ <<"mc_block_seqno">> \in DOMAIN arg.map
    /\ ret.ok
    /\ TheStatus.master_id = BlockIdExtDefault

(***************************************************************************)
(* The block proof's claims.                                               *)
(***************************************************************************)
\* the proof given decodes
ProofDecodable ==
    /\ op = "parse_block_proof"
    /\ <<"proof">> \in DOMAIN arg.map /\ arg.map[<<"proof">>] = JStr(SampleBoc)
HasSignaturesArray ==
    <<"signatures">> \in DOMAIN arg.map /\ arg.map[<<"signatures">>].t = "arr"
TheSignatures == arg.map[<<"signatures">>].a
\* the companions of the array are readable, and every element is an object
\* with its three fields well formed
BundleReadable ==
    /\ \A f \in DOMAIN BundleFields : f \in DOMAIN arg.map /\ arg.map[f] = BundleFields[f]
    /\ \A i \in DOMAIN TheSignatures :
          /\ TheSignatures[i].t = "obj"
          /\ DOMAIN TheSignatures[i].m = DOMAIN SigA
          /\ \A f \in DOMAIN SigA : Len(TheSignatures[i].m[f].s) = 64
\* the pair of an element of the array
PairOf(e) ==
    [node_id_short |-> e.m[<<"node_id">>].s,
     sign |-> [r |-> e.m[<<"r">>].s, s |-> e.m[<<"s">>].s]]

\* C16: for a block proof map with a decodable proof, parse_block_proof yields
\* a signature bundle exactly when the field signatures is an array: without
\* the array the call succeeds with no bundle; with the array, and its weight,
\* validator fields and elements readable, the call succeeds with the bundle
\* whose weight is sig_weight and whose pairs are the (node_id, r, s) of the
\* elements in the order of the array; otherwise the call fails.
C16_BundleIffSignatures ==
    ProofDecodable =>
        IF ~HasSignaturesArray THEN ret.ok /\ ret.val.signatures = <<>>
        ELSE /\ ret.ok <=> BundleReadable
             /\ ret.ok =>
                   /\ Len(ret.val.signatures) = 1
                   /\ ret.val.signatures[1].pure_signatures.weight = SmallMag(2)
                   /\ ret.val.signatures[1].pure_signatures.signatures =
                          [i \in DOMAIN TheSignatures |-> PairOf(TheSignatures[i])]
C16_Witness ==
    /\ ProofDecodable
    /\ HasSignaturesArray
    /\ TheSignatures = <<JObj(SigB), JObj(SigA)>>
    /\ ret.ok
    /\ ret.val.signatures[1].pure_signatures.weight = SmallMag(2)
    /\ ret.val.signatures[1].pure_signatures.signatures =
           <<PairOf(JObj(SigB)), PairOf(JObj(SigA))>>

(***************************************************************************)
(* The claim on the errors of the entry points.                            *)
(***************************************************************************)
EntryPoints ==
    {"parse_config", "parse_state", "parse_state_unchecked", "parse_remp_status",
     "parse_block_proof"}
\* C20: every error an entry point returns names the field that caused it:
\* the error carries the name of a field, under the path of the object that
\* holds it.
C20_ErrorsNamePath ==
    op \in EntryPoints /\ ~ret.ok => ret.err.name # <<>>
\* parse_state stopped by an element of p31 that is no string: the error holds
\* no path and no name
C20_Witness ==
    /\ op = "parse_state"
    /\ arg.map = GoodRoot((PName(31) :> JArr(<<JNull>>)) @@ FullConfig)
    /\ ~ret.ok
    /\ ret.err = [kind |-> "NotString", path |-> <<>>, name |-> <<>>]

(***************************************************************************)
(* The accessor's claims.                                                  *)
(***************************************************************************)
Getters == {"get_obj", "get_vec", "get_str", "get_bool"}
\* the context the call was made on, its path P and the field name F
TheContext == contexts[arg.ctx].pm
ShapeWanted == [get_obj |-> "obj", get_vec |-> "arr", get_str |-> "str", get_bool |-> "bool"]
\* what the getter returns for a field of its shape
ValueWanted ==
    CASE op = "get_obj" ->
            PathMap(TheContext.map[arg.name].m, Append(TheContext.path, arg.name))
      [] op = "get_vec" -> TheContext.map[arg.name].a
      [] op = "get_str" -> TheContext.map[arg.name].s
      [] op = "get_bool" -> TheContext.map[arg.name].b
\* the text msg holds the text sub
Embeds(msg, sub) ==
    \E i \in 0..(Len(msg) - Len(sub)) : SubSeq(msg, i + 1, i + Len(sub)) = sub
\* the segments of a path joined by '/'
RECURSIVE Slashed(_)
Slashed(path) ==
    IF Len(path) = 1 THEN path[1]
    ELSE Slashed(SubSeq(path, 1, Len(path) - 1)) \o <<"/">> \o path[Len(path)]

\* C21: on a context of path P, get_obj, get_vec, get_str and get_bool return
\* the value of field F when it is there with the shape the getter wants; fail
\* with the missing-field error, whose text holds P joined by '/' and F, when F
\* is not there; and fail with another error, whose text holds P/F, when F is
\* there with another shape.
C21_GetterContract ==
    op \in Getters =>
        IF arg.name \notin DOMAIN TheContext.map
        THEN /\ ~ret.ok
             /\ ret.err.kind = "MissingField"
             /\ Embeds(error_message(ret.err), Slashed(TheContext.path))
             /\ Embeds(error_message(ret.err), arg.name)
        ELSE IF TheContext.map[arg.name].t = ShapeWanted[op]
        THEN ret.ok /\ ret.val = ValueWanted
        ELSE /\ ~ret.ok
             /\ ret.err.kind # "MissingField"
             /\ Embeds(error_message(ret.err),
                       Slashed(Append(TheContext.path, arg.name)))
C21_Witness ==
    /\ op = "get_bool"
    /\ TheContext.path = <<<<"root">>, <<"o">>>>
    /\ arg.name = <<"s">>
    /\ ~ret.ok
    /\ error_message(ret.err) = <<"root", "/", "o", "/", "s", " must be boolean">>

\* every context starts at the sentinel, and a derived one has the path of
\* its parent with the name it was derived under appended
ContextsWellFormed ==
    \A i \in DOMAIN contexts :
        /\ contexts[i].pm.path[1] = <<"root">>
        /\ IF contexts[i].parent = 0 THEN contexts[i].pm.path = <<<<"root">>>>
           ELSE /\ contexts[i].parent \in 1..(i - 1)
                /\ contexts[i].pm.path =
                       Append(contexts[contexts[i].parent].pm.path, contexts[i].name)
\* a call leaves the contexts there are as they were, and a failed get_obj or
\* cont builds none
ContextsKept ==
    /\ \A i \in DOMAIN contexts : i \in DOMAIN contexts' /\ contexts'[i] = contexts[i]
    /\ op' \in {"get_obj", "cont"} /\ ~ret'.ok => contexts' = contexts
    /\ op' \in {"get_obj", "cont"} /\ ret'.ok => Len(contexts') = Len(contexts) + 1

\* C22: after any sequence of PathMap::new, get_obj and cont, every context's
\* path starts with "root" and every derived context's path is its parent's
\* path with the one given name appended; the parent's path is unchanged, and
\* a failed get_obj or cont creates no context.
C22_PathsExtendParent == []ContextsWellFormed /\ [][ContextsKept]_vars
C22_Witness ==
    /\ Len(contexts) = 3
    /\ contexts[2].pm.path = <<<<"root">>, <<"o">>>>
    /\ contexts[3].parent = 2
    /\ contexts[3].pm.path = <<<<"root">>, <<"o">>, <<"v">>>>
    /\ op = "cont" /\ ~ret.ok /\ arg.ctx = 2

(***************************************************************************)
(* The scalar decoders' claims.                                            *)
(***************************************************************************)
\* the three resolutions of get_num, each on its own: [ok, val]
NativeResolution(map, name) ==
    IF name \in DOMAIN map THEN as_i64(map[name]) ELSE [ok |-> FALSE]
DecFieldResolution(map, name) ==
    IF DecName(name) \in DOMAIN map /\ map[DecName(name)].t = "str"
    THEN i64_from_str(map[DecName(name)].s) ELSE [ok |-> FALSE]
StringResolution(map, name) ==
    IF name \in DOMAIN map /\ map[name].t = "str"
    THEN IF HasPrefix0x(map[name].s)
         THEN i64_from_str_radix(StripPrefix0x(map[name].s), 16)
         ELSE i64_from_str(map[name].s)
    ELSE [ok |-> FALSE]

\* C5 as stated: get_num returns the value of the first of the three resolutions
\* that succeeds, and fails only if none of the three succeeds.
C5_FirstSuccessfulWins ==
    op = "get_num" =>
        LET r1 == NativeResolution(arg.map, arg.name)
            r2 == DecFieldResolution(arg.map, arg.name)
            r3 == StringResolution(arg.map, arg.name)
        IN  IF r1.ok THEN ret = Ok(r1.val)
            ELSE IF r2.ok THEN ret = Ok(r2.val)
            ELSE IF r3.ok THEN ret = Ok(r3.val)
            ELSE ~ret.ok

\* C5 amended: the first resolution whose field is present with the JSON type it
\* expects (an i64 integer at F, a string at F_dec, a string at F) decides the
\* call: its value when the string parses, an error when it does not, with no
\* later resolution tried; get_num fails when no resolution applies.
C5_FirstApplicableDecides ==
    op = "get_num" =>
        LET m  == arg.map
            F  == arg.name
            D  == DecName(arg.name)
            r1 == NativeResolution(m, F)
            r2 == DecFieldResolution(m, F)
            r3 == StringResolution(m, F)
        IN  IF r1.ok THEN ret = Ok(r1.val)
            ELSE IF D \in DOMAIN m /\ m[D].t = "str"
            THEN IF r2.ok THEN ret = Ok(r2.val) ELSE ~ret.ok
            ELSE IF F \in DOMAIN m /\ m[F].t = "str"
            THEN IF r3.ok THEN ret = Ok(r3.val) ELSE ~ret.ok
            ELSE ~ret.ok

\* C5 witness: F holds a decimal string, F_dec a string that is no number, and
\* get_num has failed.
C5_Witness ==
    /\ op = "get_num"
    /\ arg.name = <<"x">>
    /\ arg.map = (<<"x">> :> JStr(<<"4", "2">>)) @@ (<<"x", "_dec">> :> JStr(<<"z", "z">>))
    /\ StringResolution(arg.map, arg.name).ok
    /\ ~ret.ok

\* the four objects that encode v alone
NativeMap(v) == (<<"x">> :> JPosInt(v))
DecFieldMap(v) == (<<"x", "_dec">> :> JStr(DecString(v)))
HexStringMaps(v) ==
    {(<<"x">> :> JStr(<<"0", "x">> \o HexString(v))),
     (<<"x">> :> JStr(<<"0", "x">> \o HexStringUpper(v)))}
DecStringMap(v) == (<<"x">> :> JStr(DecString(v)))
I64Mags == {v \in SampleMags : FitsBits(v, 63)}
\* the encodings of every sample magnitude
Encodings ==
    [v \in SampleMags |->
        [native |-> NativeMap(v), hex |-> HexStringMaps(v),
         dec |-> {DecStringMap(v), DecFieldMap(v)}]]

\* C6: for a non-negative v of the i64 range, get_num("x") returns v on each of
\* the four objects that encode it alone: native, x_dec decimal string, x hex
\* string with the 0x prefix, x decimal string.
C6_EncodingsAgree ==
    (op = "get_num" /\ arg.name = <<"x">>) =>
        \A v \in I64Mags :
            arg.map \in ({Encodings[v].native} \cup Encodings[v].dec
                         \cup Encodings[v].hex)
                => ret = Ok(I64(FALSE, v))

\* C6 witness: the largest i64, given as a 0x string, was read.
C6_Witness ==
    /\ op = "get_num"
    /\ arg.name = <<"x">>
    /\ arg.map = (<<"x">> :> JStr(<<"0", "x">> \o HexString(AllOnes(63))))
    /\ ret.ok
    /\ ret.val.mag = AllOnes(63)

\* C7: get_grams("x") fails when the amount is given only as a 0x string at x;
\* the decimal string of v at x and at x_dec both give the amount the native
\* {x: v} gives.
C7_GramsRejectsHex ==
    (op = "get_grams" /\ arg.name = <<"x">>) =>
        \A v \in SampleMags :
            /\ arg.map \in Encodings[v].hex => ~ret.ok
            /\ arg.map \in Encodings[v].dec =>
                  /\ ret = Ok(v)
                  /\ ret = get_grams(PathMap_new(Encodings[v].native), <<"x">>)

\* C7 witness: get_grams was given 0x2A at x and failed.
C7_Witness ==
    /\ op = "get_grams"
    /\ arg.name = <<"x">>
    /\ arg.map = (<<"x">> :> JStr(<<"0", "x", "2", "A">>))
    /\ ~ret.ok

NarrowWidth == [get_u8 |-> 8, get_u16 |-> 16, get_u32 |-> 32]
\* a + b on magnitudes
AddMag(a, b) ==
    LET carry[i \in 0..NLimbs] ==
            IF i = 0 THEN 0 ELSE (a[i] + b[i] + carry[i - 1]) \div Base
    IN  [i \in Limbs |-> (a[i] + b[i] + carry[i - 1]) % Base]
\* u is v modulo 2^w: 0 <= u < 2^w, and 2^w divides v - u
IsModulo(u, v, w) ==
    /\ FitsBits(u, w)
    /\ IF v.neg THEN TruncBits(AddMag(u, v.mag), w) = ZeroMag
       ELSE \A i \in Limbs :
               /\ i < (w \div 16) + 1 => v.mag[i] = u[i]
               /\ i = (w \div 16) + 1 => (v.mag[i] - u[i]) % (2^(w % 16)) = 0
\* the number get_num reads from the field the call names
TheNumber ==
    get_num(IF op = "decode_object" THEN PathMap(arg.map, <<<<"root">>, PName(arg.num)>>)
            ELSE PathMap_new(arg.map),
            arg.name)
NarrowOps == {"get_u8", "get_u16", "get_u32", "get_num16", "get_num_as", "decode_object"}
WidthOf ==
    CASE op \in DOMAIN NarrowWidth -> NarrowWidth[op]
      [] op = "get_num16" -> 16
      [] op = "get_num_as" -> arg.w
      [] op = "decode_object" -> IF arg.num = 15 THEN 32 ELSE 16
\* what the call stored for the field
Stored ==
    CASE op \in DOMAIN NarrowWidth -> value
      [] op = "decode_object" -> ret.val[1]
      [] OTHER -> ret.val
\* C27: narrowing never fails: whenever get_num reads an i64 v from the field,
\* get_u8, get_u16, get_u32, get_num16 and the `as` casts of the decoders store
\* v modulo 2^w for the width w of the field, for negative and too large v as
\* well, and the call fails only when get_num itself does, with its error.
C27_NarrowingWraps ==
    op \in NarrowOps =>
        /\ TheNumber.ok => /\ ret.ok
                           /\ IsModulo(Stored, TheNumber.val, WidthOf)
        /\ ~TheNumber.ok => IF op \in DOMAIN NarrowWidth THEN ret.ok ELSE ret = TheNumber
\* get_num16 of -1: stored as 65535; no number was refused
C27_Witness ==
    /\ op = "get_num16"
    /\ arg.map = (<<"x">> :> JNegInt(SmallMag(1)))
    /\ arg.name = <<"x">>
    /\ TheNumber = Ok(I64(TRUE, SmallMag(1)))
    /\ ret = Ok(SmallMag(65535))


\* C9: get_u8, get_u16 and get_u32 overwrite the caller's field with the
\* narrowed number when get_num succeeds, leave it as it was when get_num
\* fails, and raise no error.
C9_NarrowingFrame ==
    op \in {"get_u8", "get_u16", "get_u32"} =>
        LET r == get_num(PathMap_new(arg.map), arg.name)
        IN  /\ ret.ok
            /\ r.ok => value = as_unsigned(r.val, NarrowWidth[op])
            /\ ~r.ok => value = arg.value

\* C9 witness: get_num failed on a string that is no number and the field still
\* holds the 7 it held before.
C9_Witness ==
    /\ op = "get_u16"
    /\ arg.value = SmallMag(7)
    /\ arg.name = <<"x">>
    /\ arg.map = (<<"x">> :> JStr(<<"x", "7">>))
    /\ ~get_num(PathMap_new(arg.map), arg.name).ok
    /\ value = SmallMag(7)

====
